---- MODULE Spec2Model ----
(***************************************************************************)
(* Model of the request-admission pipeline of cc-fastapi.                  *)
(*                                                                         *)
(* Part 1: ConcurrencyLimiter (services/concurrent.service.ts).            *)
(* Jobs are numbered in the order of their run() calls.  Node's event loop *)
(* is single-threaded: every action below is one synchronous run-to-       *)
(* completion block of the code (a call, a timer callback, a promise       *)
(* continuation).  The continuation that starts a promoted job's body is a *)
(* microtask scheduled by processNext, so promotion and body start are two *)
(* steps; timer callbacks are macrotasks and run only when no microtask is *)
(* pending.                                                                *)
(*                                                                         *)
(* Part 2: one POST /chat/stream request (routes/chat.ts handleStreamChat, *)
(* services/stream.service.ts streamClaudeOutput, services/claude.service  *)
(* spawnClaudeProcess and killClaudeProcess).  The request is job 1 of the *)
(* limiter.  Text is a sequence of characters, each a string: "LF" is the  *)
(* line feed, "SP" a blank, "{" k "}" the JSON object of kind k.           *)
(***************************************************************************)
EXTENDS Integers, Sequences, FiniteSets, TLC

\* ---------------------------------------------------------------- bounds
\* Number of run() calls explored.
NumJobs == 3
\* Largest capacity passed to the constructor or to setMaxConcurrent.
MaxCap == 3
\* Number of clock steps (of one second each) explored.
MaxTime == 3
\* Largest number of lines in the child process's output.
MaxLines == 2
\* Largest number of chunks child.stdout delivers the output in.
MaxChunks == 2

\* Blanks before and after a line given to parseLine.
MaxPad == 1
\* Largest length of the externaldirs string.
MaxDirLen == 3
\* Concurrent callers of StartServerAsync and StopServerAsync.
NumCallers == 2
\* Server processes the controller starts.
MaxProcesses == 2

\* ------------------------------------------------------- program constants
\* Milliseconds per second: the divisor of the timeout error message.
MsPerSecond == 1000
\* new ConcurrencyLimiter(5, 120000): the capacity of globalLimiter.
GlobalMaxConcurrent == 5
\* and its default timeout, in milliseconds.
GlobalDefaultTimeout == 120000
\* The editor's setting of the number of concurrent requests: its default and
\* the range it is clamped to.
DefaultConcurrentRequests == 3
MinConcurrentRequests == 1
MaxConcurrentRequests == 10

Jobs == 1..NumJobs
Capacities == 1..MaxCap
\* Timeout values (ms) given to the constructor, setDefaultTimeout and run().
Timeouts == {MsPerSecond, 2 * MsPerSecond}

VARIABLES
    active,          \* this.active
    maxConcurrent,   \* this.maxConcurrent
    defaultTimeout,  \* this.defaultTimeout
    queue,           \* this.queue: the queued tasks, by job
    timer,           \* task.timeout: TRUE while the job's setTimeout is pending
    timeoutMs,       \* the timeout the job's timer was armed with (0: never queued)
    timestamp,       \* task.timestamp (0: never queued)
    microtasks,      \* promoted jobs whose Promise.resolve().then callback is pending
    running,         \* jobs whose body execute() has been called and has not settled
    started,         \* jobs whose body execute() has ever been called
    settled,         \* per job: the settlements requested on its run() promise, in order
    nextJob,         \* the next run() call's job
    now              \* Date.now()

vars == <<active, maxConcurrent, defaultTimeout, queue, timer, timeoutMs,
          timestamp, microtasks, running, started, settled, nextJob, now>>

VARIABLES
    pc,              \* the position of handleStreamChat's job function
    thrown,          \* TRUE while an exception propagates out of the inner try
    session,         \* request.body.sessionId, as characters (<<>>: absent or '')
    allowedmode,     \* request.body.allowedmode ("": absent)
    workspace,       \* request.body.workspace, as characters (<<>>: absent or '')
    externaldirs,    \* request.body.externaldirs, as characters (<<>>: absent or '')
    mcpExists,       \* whether the file .mcp.json exists beside the server
    envMaxConcurrent,\* MAX_CONCURRENT in the server's environment
    server,          \* the server process: "listening", "closing" or "exited"
    args,            \* the arguments the child was spawned with (<<>>: not spawned)
    output,          \* the text the child process writes to its stdout
    pos,             \* how much of output child.stdout has delivered
    chunks,          \* how many chunks child.stdout has delivered
    pending,         \* the parsed lines of the current chunk not yet yielded
    gen,             \* the position of the streamClaudeOutput generator
    yielded,         \* the frames the generator has yielded, in order
    forwarded,       \* the frames the handler has passed to reply.raw.write
    raw,             \* reply.raw: headersSent, writableEnded, destroyed, what was sent
    child,           \* the child process: "none", "running" or "exited"
    signals,         \* the signals sent to the child, in order
    killRequested,   \* TRUE once child.kill was called on the child
    readError        \* the message of the error child.stdout raised ("": none)

\* The editor's controller of the server process (CcFastApiController).
VARIABLES
    serverProcess,   \* _serverProcess: 0 for null, a process id, or UnstartedProcess
    startupSemaphore,\* _startupSemaphore.CurrentCount
    waiters,         \* the calls waiting in _startupSemaphore.WaitAsync(), in order
    isConnectedToExternalServer,  \* _isConnectedToExternalServer
    live,            \* the server processes the controller started that are running
    nextPid,         \* the id of the next process started
    cpc,             \* per caller: the position of its StartServerAsync or StopServerAsync call
    returned         \* per caller: what its last call returned ("": nothing yet)

controllerVars == <<serverProcess, startupSemaphore, waiters, isConnectedToExternalServer,
                    live, nextPid, cpc, returned>>

chatVars == <<pc, thrown, session, allowedmode, workspace, externaldirs, mcpExists,
              envMaxConcurrent, server, controllerVars, args, output,
              pos, chunks, pending, gen, yielded, forwarded, raw, child, signals,
              killRequested, readError>>

allVars == <<vars, chatVars>>

\* ------------------------------------------------------------- helpers
SeqToSet(s) == {s[i] : i \in 1..Len(s)}

\* Array.prototype.findIndex(t => t.resolve === resolve): 0 stands for -1.
FindIndex(q, j) ==
    IF \E i \in 1..Len(q) : q[i] = j
    THEN CHOOSE i \in 1..Len(q) : q[i] = j /\ \A k \in 1..(i - 1) : q[k] # j
    ELSE 0

\* Array.prototype.splice(index, 1)
Splice(q, index) == [i \in 1..(Len(q) - 1) |-> IF i < index THEN q[i] ELSE q[i + 1]]

\* The settlements a run() promise can be asked for.
JobResult == [kind |-> "result", seconds |-> 0]
JobError == [kind |-> "error", seconds |-> 0]
\* new Error(`请求超时 (${timeout / 1000}秒)，请稍后重试`)
TimeoutError(ms) == [kind |-> "timeout", seconds |-> ms \div MsPerSecond]
\* new Error('服务器正在关闭')
ShutdownError == [kind |-> "shutdown", seconds |-> 0]
\* No error.
NoError == [kind |-> "", seconds |-> 0]

\* The limiter fields processNext reads and writes.
LimiterState == [active |-> active, max |-> maxConcurrent, queue |-> queue,
                 timer |-> timer, microtasks |-> microtasks]

\* PromoteHead without `this.active++`.
PromoteHeadNoReserve(s) ==
    LET task == Head(s.queue) IN
    [s EXCEPT !.queue = Tail(s.queue),
              !.timer = [s.timer EXCEPT ![task] = FALSE],
              !.microtasks = Append(s.microtasks, task)]

\* PromoteHead without clearTimeout(task.timeout).
PromoteHeadKeepTimer(s) ==
    LET task == Head(s.queue) IN
    [s EXCEPT !.queue = Tail(s.queue),
              !.active = s.active + 1,
              !.microtasks = Append(s.microtasks, task)]

\* PromoteHead with queue.pop() in place of queue.shift().
PromoteLast(s) ==
    LET task == s.queue[Len(s.queue)] IN
    [s EXCEPT !.queue = SubSeq(s.queue, 1, Len(s.queue) - 1),
              !.timer = [s.timer EXCEPT ![task] = FALSE],
              !.active = s.active + 1,
              !.microtasks = Append(s.microtasks, task)]

\* One iteration of processNext's loop: shift the head, clear its timer, take a
\* slot, schedule the body on a microtask.
PromoteHead(s) ==
    LET task == Head(s.queue) IN
    [s EXCEPT !.queue = Tail(s.queue),
              !.timer = [s.timer EXCEPT ![task] = FALSE],
              !.active = s.active + 1,
              !.microtasks = Append(s.microtasks, task)]

\* processNext with `if` in place of `while`.
ProcessNextOnce(s) ==
    IF Len(s.queue) > 0 /\ s.active < s.max
    THEN PromoteHead(s)
    ELSE s

\* processNext with `<=` in place of `<` in the capacity test.
RECURSIVE ProcessNextOffByOne(_)
ProcessNextOffByOne(s) ==
    IF Len(s.queue) > 0 /\ s.active <= s.max
    THEN ProcessNextOffByOne(PromoteHead(s))
    ELSE s

RECURSIVE ProcessNext(_)
ProcessNext(s) ==
    IF Len(s.queue) > 0 /\ s.active < s.max
    THEN ProcessNext(PromoteHead(s))
    ELSE s

\* Assign the limiter fields from the state processNext left.
Commit(s) ==
    /\ active' = s.active
    /\ queue' = s.queue
    /\ timer' = s.timer
    /\ microtasks' = s.microtasks

\* getStatus() without the Math.max(0, ...) clamp.
GetStatusUnclamped ==
    [active |-> active,
     max |-> maxConcurrent,
     available |-> maxConcurrent - active,
     queued |-> Len(queue)]

\* getStatus(): the snapshot {active, max, available, queued}.
GetStatus ==
    [active |-> active,
     max |-> maxConcurrent,
     available |-> IF maxConcurrent - active > 0 THEN maxConcurrent - active ELSE 0,
     queued |-> Len(queue)]

\* getQueueInfo() reporting the time of the call as each entry's timestamp.
GetQueueInfoNowStamp ==
    [i \in 1..Len(queue) |->
        [timestamp |-> now, waitingMs |-> now - timestamp[queue[i]]]]

\* getQueueInfo(): one {timestamp, waitingMs} entry per queued task.
GetQueueInfo ==
    [i \in 1..Len(queue) |->
        [timestamp |-> timestamp[queue[i]], waitingMs |-> now - timestamp[queue[i]]]]

\* --------------------------------------------------------------- Init
Init ==
    /\ active = 0
    /\ maxConcurrent \in Capacities
    /\ defaultTimeout \in Timeouts
    /\ queue = <<>>
    /\ timer = [j \in Jobs |-> FALSE]
    /\ timeoutMs = [j \in Jobs |-> 0]
    /\ timestamp = [j \in Jobs |-> 0]
    /\ microtasks = <<>>
    /\ running = {}
    /\ started = {}
    /\ settled = [j \in Jobs |-> <<>>]
    /\ nextJob = 1
    /\ now = MsPerSecond

\* ------------------------------------------------------------- actions
\* executeDirect with `this.active++` moved behind the await.
ExecuteDirectLateIncrement(j) ==
    /\ active' = active
    /\ running' = running \cup {j}
    /\ started' = started \cup {j}
    /\ UNCHANGED <<queue, timer, timeoutMs, timestamp>>

\* executeDirect, up to the await of the body.
ExecuteDirect(j) ==
    /\ active' = active + 1
    /\ running' = running \cup {j}
    /\ started' = started \cup {j}
    /\ UNCHANGED <<queue, timer, timeoutMs, timestamp>>

\* enqueue without the setTimeout call.
EnqueueNoTimer(j, timeout) ==
    /\ timer' = timer
    /\ timeoutMs' = [timeoutMs EXCEPT ![j] = timeout]
    /\ timestamp' = [timestamp EXCEPT ![j] = now]
    /\ queue' = Append(queue, j)
    /\ UNCHANGED <<active, running, started>>

\* enqueue: arm the timer, push the task.
Enqueue(j, timeout) ==
    /\ timer' = [timer EXCEPT ![j] = TRUE]
    /\ timeoutMs' = [timeoutMs EXCEPT ![j] = timeout]
    /\ timestamp' = [timestamp EXCEPT ![j] = now]
    /\ queue' = Append(queue, j)
    /\ UNCHANGED <<active, running, started>>

\* run() without the capacity test.
RunUnchecked(given, timeout) ==
    /\ nextJob <= NumJobs
    /\ ExecuteDirect(nextJob)
    /\ nextJob' = nextJob + 1
    /\ UNCHANGED <<maxConcurrent, defaultTimeout, microtasks, settled, now>>

\* run(execute, timeout): given says whether the timeout argument is passed.
Run(given, timeout) ==
    /\ nextJob <= NumJobs
    /\ IF active < maxConcurrent
       THEN ExecuteDirect(nextJob)
       ELSE Enqueue(nextJob, IF given THEN timeout ELSE defaultTimeout)
    /\ nextJob' = nextJob + 1
    /\ UNCHANGED <<maxConcurrent, defaultTimeout, microtasks, settled, now>>

\* The microtask scheduled by processNext runs: task.execute() is called.
StartPromoted ==
    /\ microtasks # <<>>
    /\ LET j == Head(microtasks) IN
        /\ microtasks' = Tail(microtasks)
        /\ running' = running \cup {j}
        /\ started' = started \cup {j}
    /\ UNCHANGED <<active, maxConcurrent, defaultTimeout, queue, timer, timeoutMs,
                   timestamp, settled, nextJob, now>>

\* The finally block without the processNext() call.
ReleaseNoDrain ==
    Commit([LimiterState EXCEPT !.active = active - 1])

\* The finally block of executeDirect and of processNext's callback.
Release ==
    Commit(ProcessNext([LimiterState EXCEPT !.active = active - 1]))

\* The body of a directly admitted job settles (ok: it resolved, otherwise it
\* threw): executeDirect resumes after `await execute()`, runs its finally block
\* and settles run()'s promise with the body's outcome.
CompleteDirect(j, ok) ==
    /\ Release
    /\ settled' = [settled EXCEPT ![j] = Append(@, IF ok THEN JobResult ELSE JobError)]

\* CompletePromoted without the finally block on the throwing path.
CompletePromotedLeak(j, ok) ==
    /\ settled' = [settled EXCEPT ![j] = Append(@, IF ok THEN JobResult ELSE JobError)]
    /\ IF ok THEN Release ELSE UNCHANGED <<active, queue, timer, microtasks>>

\* The body of a promoted job settles: processNext's callback resumes after
\* `await task.execute()`, calls task.resolve or task.reject, then runs its
\* finally block.
CompletePromoted(j, ok) ==
    /\ settled' = [settled EXCEPT ![j] = Append(@, IF ok THEN JobResult ELSE JobError)]
    /\ Release

Complete(j, ok) ==
    /\ j \in running
    /\ running' = running \ {j}
    /\ IF timestamp[j] = 0 THEN CompleteDirect(j, ok) ELSE CompletePromoted(j, ok)
    /\ UNCHANGED <<maxConcurrent, defaultTimeout, timeoutMs, timestamp, started,
                   nextJob, now>>

\* The timer callback without the splice.
TimeoutNoSplice(j) ==
    /\ timer[j]
    /\ now - timestamp[j] >= timeoutMs[j]
    /\ microtasks = <<>>
    /\ settled' = [settled EXCEPT ![j] = Append(@, TimeoutError(timeoutMs[j]))]
    /\ timer' = [timer EXCEPT ![j] = FALSE]
    /\ UNCHANGED <<active, maxConcurrent, defaultTimeout, queue, timeoutMs, timestamp,
                   microtasks, running, started, nextJob, now>>

\* The setTimeout callback of job j's queue entry fires.
Timeout(j) ==
    /\ timer[j]
    /\ now - timestamp[j] >= timeoutMs[j]
    /\ microtasks = <<>>
    /\ LET index == FindIndex(queue, j) IN
        queue' = IF index # 0 THEN Splice(queue, index) ELSE queue
    /\ settled' = [settled EXCEPT ![j] = Append(@, TimeoutError(timeoutMs[j]))]
    /\ timer' = [timer EXCEPT ![j] = FALSE]
    /\ UNCHANGED <<active, maxConcurrent, defaultTimeout, timeoutMs, timestamp,
                   microtasks, running, started, nextJob, now>>

\* setMaxConcurrent without the processNext() call.
SetMaxConcurrentNoDrain(max) ==
    /\ maxConcurrent' = max
    /\ UNCHANGED <<active, queue, timer, microtasks, defaultTimeout, timeoutMs,
                   timestamp, running, started, settled, nextJob, now>>

\* setMaxConcurrent(max)
SetMaxConcurrent(max) ==
    /\ maxConcurrent' = max
    /\ Commit(ProcessNext([LimiterState EXCEPT !.max = max]))
    /\ UNCHANGED <<defaultTimeout, timeoutMs, timestamp, running, started, settled,
                   nextJob, now>>

SetDefaultTimeout(timeout) ==
    /\ defaultTimeout' = timeout
    /\ UNCHANGED <<active, maxConcurrent, queue, timer, timeoutMs, timestamp,
                   microtasks, running, started, settled, nextJob, now>>

\* clear() without clearTimeout(task.timeout).
ClearKeepTimers ==
    /\ settled' = [j \in Jobs |-> IF j \in SeqToSet(queue)
                                  THEN Append(settled[j], ShutdownError)
                                  ELSE settled[j]]
    /\ queue' = <<>>
    /\ UNCHANGED <<active, maxConcurrent, defaultTimeout, timer, timeoutMs, timestamp,
                   microtasks, running, started, nextJob, now>>

\* clear() that also resets the active count.
ClearResetActive ==
    /\ timer' = [j \in Jobs |-> IF j \in SeqToSet(queue) THEN FALSE ELSE timer[j]]
    /\ settled' = [j \in Jobs |-> IF j \in SeqToSet(queue)
                                  THEN Append(settled[j], ShutdownError)
                                  ELSE settled[j]]
    /\ queue' = <<>>
    /\ active' = 0
    /\ UNCHANGED <<maxConcurrent, defaultTimeout, timeoutMs, timestamp,
                   microtasks, running, started, nextJob, now>>

\* clear() without `this.queue = []`.
ClearKeepQueue ==
    /\ timer' = [j \in Jobs |-> IF j \in SeqToSet(queue) THEN FALSE ELSE timer[j]]
    /\ settled' = [j \in Jobs |-> IF j \in SeqToSet(queue)
                                  THEN Append(settled[j], ShutdownError)
                                  ELSE settled[j]]
    /\ UNCHANGED <<active, maxConcurrent, defaultTimeout, queue, timeoutMs, timestamp,
                   microtasks, running, started, nextJob, now>>

\* clear()
Clear ==
    /\ timer' = [j \in Jobs |-> IF j \in SeqToSet(queue) THEN FALSE ELSE timer[j]]
    /\ settled' = [j \in Jobs |-> IF j \in SeqToSet(queue)
                                  THEN Append(settled[j], ShutdownError)
                                  ELSE settled[j]]
    /\ queue' = <<>>
    /\ UNCHANGED <<active, maxConcurrent, defaultTimeout, timeoutMs, timestamp,
                   microtasks, running, started, nextJob, now>>

\* The clock advances by one second.
Tick ==
    /\ now < MaxTime * MsPerSecond
    /\ now' = now + MsPerSecond
    /\ UNCHANGED <<active, maxConcurrent, defaultTimeout, queue, timer, timeoutMs,
                   timestamp, microtasks, running, started, settled, nextJob>>

\* The callers of the controller and the state of the controller when the
\* editor has loaded it: no process, the semaphore free, no call under way.
Callers == 1..NumCallers

NoController ==
    /\ serverProcess = 0
    /\ startupSemaphore = 1
    /\ waiters = <<>>
    /\ isConnectedToExternalServer = FALSE
    /\ live = {}
    /\ nextPid = 1
    /\ cpc = [c \in Callers |-> "idle"]
    /\ returned = [c \in Callers |-> ""]

\* The limiter alone: no chat request is in progress.
NoRequest ==
    /\ pc = "idle"
    /\ thrown = FALSE
    /\ session = <<>>
    /\ allowedmode = ""
    /\ workspace = <<>>
    /\ externaldirs = <<>>
    /\ mcpExists = FALSE
    /\ envMaxConcurrent = DefaultConcurrentRequests
    /\ server = "listening"
    /\ NoController
    /\ args = <<>>
    /\ output = <<>>
    /\ pos = 0
    /\ chunks = 0
    /\ pending = <<>>
    /\ gen = "fresh"
    /\ yielded = <<>>
    /\ forwarded = <<>>
    /\ raw = [headersSent |-> FALSE, writableEnded |-> FALSE, destroyed |-> FALSE,
              statusCode |-> 0, body |-> "", message |-> NoError, sent |-> <<>>]
    /\ child = "none"
    /\ signals = <<>>
    /\ killRequested = FALSE
    /\ readError = ""

LimiterInit == Init /\ NoRequest

Next ==
    \/ /\ \E given \in BOOLEAN, timeout \in Timeouts : Run(given, timeout)
       /\ UNCHANGED chatVars
    \/ /\ StartPromoted
       /\ UNCHANGED chatVars
    \/ /\ \E j \in Jobs, ok \in BOOLEAN : Complete(j, ok)
       /\ UNCHANGED chatVars
    \/ /\ \E j \in Jobs : Timeout(j)
       /\ UNCHANGED chatVars
    \/ /\ \E max \in Capacities : SetMaxConcurrent(max)
       /\ UNCHANGED chatVars
    \/ /\ \E timeout \in Timeouts : SetDefaultTimeout(timeout)
       /\ UNCHANGED chatVars
    \/ /\ Clear
       /\ UNCHANGED chatVars
    \/ /\ Tick
       /\ UNCHANGED chatVars

Spec == LimiterInit /\ [][Next]_allVars

\* ---- the limiter under the scheduling of the event loop ----
\* A run() call made early enough for the timer of a queued job to fire
\* before the clock of the model stops.
EarlyRun(given, timeout) ==
    /\ now + (IF given THEN timeout ELSE defaultTimeout) <= MaxTime * MsPerSecond
    /\ Run(given, timeout)
    /\ UNCHANGED chatVars

\* The microtask of a promoted job runs.
MicrotaskRuns ==
    /\ StartPromoted
    /\ UNCHANGED chatVars

\* The timer of job j fires.
TimerFires(j) ==
    /\ Timeout(j)
    /\ UNCHANGED chatVars

\* Time passes.
TimePasses ==
    /\ Tick
    /\ UNCHANGED chatVars

LiveNext ==
    \/ \E given \in BOOLEAN, timeout \in Timeouts : EarlyRun(given, timeout)
    \/ MicrotaskRuns
    \/ /\ \E j \in Jobs, ok \in BOOLEAN : Complete(j, ok)
       /\ UNCHANGED chatVars
    \/ \E j \in Jobs : TimerFires(j)
    \/ /\ Clear
       /\ UNCHANGED chatVars
    \/ TimePasses

\* Microtasks run and timers fire as time passes; nothing makes a running
\* job finish, and nothing makes a caller call.  The capacity stays as
\* constructed.
LiveSpec ==
    /\ LimiterInit
    /\ [][LiveNext]_allVars
    /\ WF_allVars(MicrotaskRuns)
    /\ WF_allVars(TimePasses)
    /\ \A j \in Jobs : WF_allVars(TimerFires(j))

\* ===================================================================
\* Properties of the ConcurrencyLimiter
\* ===================================================================
Queued == SeqToSet(queue)
Promoted == SeqToSet(microtasks)
\* Jobs whose body has been executed and has settled.
Finished == started \ running
\* The kinds of settlement requested on job j's run() promise.
Kinds(j) == {settled[j][i].kind : i \in 1..Len(settled[j])}
OwnOutcomes == {<<JobResult>>, <<JobError>>}

\* C1 (as stated): in every reachable state the active count is at most the
\* currently configured maximum capacity.
C1_ActiveWithinMax == active <= maxConcurrent

\* C1 (amended): no admission exceeds the capacity, and active <= max is kept
\* by every step that does not lower the capacity: each step that raises the
\* active count leaves it at most the capacity, and a step from a state with
\* active <= max in which the capacity does not decrease ends with active <= max.
C1_NoAdmissionBeyondMax ==
    [][/\ active' > active => active' <= maxConcurrent'
       /\ (active <= maxConcurrent /\ maxConcurrent' >= maxConcurrent)
              => active' <= maxConcurrent']_vars

\* C1 witness: the limiter is full and a later run() call has been queued.
C1_Witness == active = maxConcurrent /\ queue # <<>> /\ running # {}

\* C2 (as stated): active equals the number of job bodies that have started
\* executing minus the number that have finished, and is never negative.
C2_ActiveIsStartedMinusFinished ==
    /\ active = Cardinality(started) - Cardinality(Finished)
    /\ active >= 0

\* C2 (amended): active equals the number of jobs that have taken a slot (body
\* started, or promoted with the body still pending on its microtask) minus the
\* number whose body has finished, and is never negative.
C2_ActiveIsAdmittedMinusFinished ==
    /\ active = (Cardinality(started) + Len(microtasks)) - Cardinality(Finished)
    /\ active >= 0

\* C2 witness: a promoted job has thrown and released its slot while another
\* promoted job holds a slot with its body not yet started.
C2_Witness ==
    /\ microtasks # <<>>
    /\ \E j \in Finished : timestamp[j] # 0 /\ settled[j] = <<JobError>>

\* C3: a run() call made while active >= max is queued and its body is not
\* started; a queued job's body is never running; and while the capacity stays
\* the same a queued job leaves the queue for execution only in a step in which
\* a running job's body finishes.
C3_QueuedUntilCompletion ==
    /\ [](Queued \cap started = {})
    /\ [][/\ (nextJob' # nextJob /\ active >= maxConcurrent)
              => (nextJob \in SeqToSet(queue') /\ nextJob \notin started'
                  /\ nextJob \notin SeqToSet(microtasks'))
          /\ \A j \in Queued :
               (/\ j \in SeqToSet(microtasks') \cup started'
                /\ maxConcurrent' = maxConcurrent)
                   => \E k \in running : k \notin running']_vars

\* C3 witness: m jobs were admitted and are all still running, and the
\* (m+1)-th run() call sits in the queue.
C3_Witness ==
    /\ Cardinality(running) = maxConcurrent
    /\ started = running
    /\ queue = <<maxConcurrent + 1>>

\* C4: a job rejected by its queue timeout was rejected exactly once, with the
\* timeout error carrying the timeout it was enqueued with (in seconds); it is
\* no longer queued and its body has not been and is not going to be executed;
\* the step that rejects it takes its entry, and no other, out of getQueueInfo().
C4_TimeoutRejectsAndRemoves ==
    /\ [](\A j \in Jobs :
            "timeout" \in Kinds(j) =>
                /\ Len(settled[j]) = 1
                /\ settled[j][1].seconds * MsPerSecond = timeoutMs[j]
                /\ timeoutMs[j] \in Timeouts
                /\ j \notin Queued
                /\ j \notin Promoted
                /\ j \notin started)
    /\ [][\A j \in Jobs :
            (settled[j] = <<>> /\ settled'[j] = <<TimeoutError(timeoutMs[j])>>)
                => /\ j \in Queued
                   /\ now - timestamp[j] >= timeoutMs[j]
                   /\ SeqToSet(queue') = Queued \ {j}
                   /\ Len(GetQueueInfo') = Len(GetQueueInfo) - 1]_vars

\* C4 witness: a queued job has timed out while a later job is still queued.
C4_Witness ==
    \E j \in Jobs :
        /\ settled[j] = <<TimeoutError(timeoutMs[j])>>
        /\ \E k \in Queued : k > j

\* C5: an admitted job (promoted or with its body started) has no pending
\* timer and no timeout rejection, and the active count drops only by the
\* number of bodies that finish in the step.
C5_AdmittedNeverTimesOut ==
    /\ [](\A j \in Promoted \cup started : ~timer[j] /\ "timeout" \notin Kinds(j))
    /\ [][active' >= active - Cardinality(running \ running')]_vars

\* C5 witness: a promoted job is still running after the timeout it was
\* enqueued with has elapsed.
C5_Witness ==
    \E j \in running :
        /\ timestamp[j] # 0
        /\ now - timestamp[j] >= timeoutMs[j]
        /\ settled[j] = <<>>

\* C6: a clear() step rejects every queued job with the shutdown error, cancels
\* its timer and empties the queue; a job rejected by clear() was rejected
\* exactly once, has no pending timer, is not queued or promoted, and its body
\* is never executed.
C6_ClearRejectsQueued ==
    /\ [][Clear => /\ queue' = <<>>
                   /\ \A j \in Queued :
                        settled'[j] = <<ShutdownError>> /\ ~timer'[j]]_vars
    /\ [](\A j \in Jobs :
            "shutdown" \in Kinds(j) =>
                /\ settled[j] = <<ShutdownError>>
                /\ ~timer[j]
                /\ j \notin Queued
                /\ j \notin Promoted
                /\ j \notin started)

\* C6 witness: clear() has rejected a queued job whose timeout has since
\* elapsed, and the limiter has gone on admitting a later job.
C6_Witness ==
    \E j \in Jobs :
        /\ settled[j] = <<ShutdownError>>
        /\ now - timestamp[j] >= timeoutMs[j]
        /\ \E k \in started : k > j

\* C7: a clear() step leaves the active count, the capacity, the executing
\* jobs and their promises as they were; and every body that finishes settles
\* its promise exactly once, with the job's own outcome, and gives back its
\* slot (the count drops by one, less the queued jobs promoted in the step).
C7_ClearKeepsExecuting ==
    /\ [][Clear => /\ active' = active
                   /\ maxConcurrent' = maxConcurrent
                   /\ running' = running
                   /\ microtasks' = microtasks
                   /\ \A j \in running \cup Promoted : settled'[j] = settled[j]]_vars
    /\ [][\A j \in running \ running' :
            /\ settled'[j] \in OwnOutcomes
            /\ active' = (active - 1) + (Len(queue) - Len(queue'))]_vars

\* C7 witness: a job that was executing when clear() rejected a later, queued
\* job is still executing.
C7_Witness ==
    \E j \in Jobs, k \in running :
        /\ k < j
        /\ settled[j] = <<ShutdownError>>
        /\ settled[k] = <<>>

\* C8: jobs are numbered in run() order, so of two queued jobs the smaller was
\* enqueued first.  A promotion never passes over an earlier queued job; the
\* bodies of promoted jobs start in promotion order; and when a job is promoted
\* at capacity 1, every job submitted before it whose body was executed has
\* finished and settled, while the promoted job's promise is still pending.
C8_StrictFifo ==
    /\ [](\A i, k \in 1..Len(queue) : i < k => queue[i] < queue[k])
    /\ [](\A i, k \in 1..Len(microtasks) : i < k => microtasks[i] < microtasks[k])
    /\ [][/\ \A j1, j2 \in Queued :
               (j1 < j2 /\ j2 \in SeqToSet(microtasks'))
                   => j1 \in SeqToSet(microtasks')
          /\ \A j \in started' \ started :
               timestamp[j] # 0 => \A k \in SeqToSet(microtasks') : j < k
          /\ \A b \in Queued :
               (b \in SeqToSet(microtasks') /\ maxConcurrent' = 1)
                   => /\ settled'[b] = <<>>
                      /\ \A a \in 1..(b - 1) :
                           a \in started' =>
                               /\ a \notin running'
                               /\ settled'[a] \in OwnOutcomes]_vars

\* C8 witness: two jobs were queued behind a running one; the first of them
\* has been promoted and has run, the second is executing after it.
C8_Witness ==
    \E j1, j2 \in Jobs :
        /\ j1 < j2
        /\ timestamp[j1] # 0
        /\ timestamp[j2] # 0
        /\ settled[j1] \in OwnOutcomes
        /\ j2 \in running

\* C9: at most one settlement is ever requested on a run() promise; it is the
\* job's own result or error exactly when the body was executed and has
\* finished, and the timeout or the shutdown error only for a job that was
\* queued, whose body was never executed and that is no longer queued.
C9_SettlesOnce ==
    \A j \in Jobs :
        /\ Len(settled[j]) <= 1
        /\ (j \in Finished) <=> (settled[j] \in OwnOutcomes)
        /\ Kinds(j) \cap {"timeout", "shutdown"} # {} =>
              /\ timestamp[j] # 0
              /\ j \notin started
              /\ j \notin Queued \cup Promoted
        /\ Kinds(j) \subseteq {"result", "error", "timeout", "shutdown"}

\* C9 witness: the three kinds of settlement have all occurred: the job's own
\* outcome, the timeout error and the shutdown error.
C9_Witness ==
    \E j1, j2, j3 \in Jobs :
        /\ settled[j1] \in OwnOutcomes
        /\ Kinds(j2) = {"timeout"}
        /\ Kinds(j3) = {"shutdown"}

\* C10: no state has both a non-empty queue and a free slot.
C10_QueueDrained == ~(queue # <<>> /\ active < maxConcurrent)

\* C10 witness: a body has finished and the drain has promoted the head of the
\* queue while another job stays queued behind it.
C10_Witness ==
    /\ Finished # {}
    /\ microtasks # <<>>
    /\ queue # <<>>
    /\ active = maxConcurrent

\* min(a, b)
Min(a, b) == IF a < b THEN a ELSE b

\* C11: a setMaxConcurrent(n) step sets the capacity to n, leaves the executing
\* jobs alone and moves exactly k jobs from the head of the queue, in queue
\* order, to the promoted jobs, where k = min(queue length, n - active) if
\* n > active and k = 0 otherwise; their timers are cleared and each takes a
\* slot.  No step promotes a queued job unless the active count it leaves is
\* within the capacity.
C11_SetMaxConcurrent ==
    [][/\ \A n \in Capacities :
            SetMaxConcurrent(n) =>
                LET k == IF n > active THEN Min(Len(queue), n - active) ELSE 0 IN
                /\ maxConcurrent' = n
                /\ running' = running
                /\ settled' = settled
                /\ active' = active + k
                /\ microtasks' = microtasks \o SubSeq(queue, 1, k)
                /\ queue' = SubSeq(queue, k + 1, Len(queue))
                /\ \A i \in 1..k : ~timer'[queue[i]]
       /\ \A j \in Queued :
            j \in SeqToSet(microtasks') => active' <= maxConcurrent']_vars

\* C11 witness: with job 1 running at capacity 1 and jobs 2 and 3 queued,
\* setMaxConcurrent(3) has promoted both, in order.
C11_Witness ==
    /\ maxConcurrent = 3
    /\ running = {1}
    /\ started = {1}
    /\ microtasks = <<2, 3>>
    /\ queue = <<>>

\* C12 (as stated): getStatus() reports available = max - active.
C12_AvailableIsMaxMinusActive ==
    GetStatus.available = GetStatus.max - GetStatus.active

\* C12 (amended): getStatus() reports the active count, the capacity and the
\* queue length, and available = max - active when active <= max and 0 when
\* the capacity was lowered under the active count.
C12_StatusSnapshot ==
    /\ GetStatus.active = active
    /\ GetStatus.max = maxConcurrent
    /\ GetStatus.queued = Len(queue)
    /\ GetStatus.available >= 0
    /\ active <= maxConcurrent => GetStatus.available = maxConcurrent - active
    /\ active > maxConcurrent => GetStatus.available = 0

\* C12 witness: more jobs are executing than the capacity allows, a job is
\* queued, and no slot is reported available.
C12_Witness ==
    /\ active > maxConcurrent
    /\ GetStatus.available = 0
    /\ GetStatus.queued > 0

\* A step in which no limiter operation takes effect.
LimiterUntouched ==
    UNCHANGED <<active, maxConcurrent, queue, timer, timeoutMs, timestamp,
                microtasks, running, started, settled, nextJob>>

C14_CheckAndIncrementAtomic ==
    [][nextJob' # nextJob =>
          IF active < maxConcurrent
          THEN /\ nextJob \in running'
               /\ active' = active + 1
               /\ queue' = queue
          ELSE /\ queue' = Append(queue, nextJob)
               /\ nextJob \notin started'
               /\ active' = active]_vars

\* C14 witness: with one slot free at capacity 2, two further run() calls were
\* made: one took the last slot, the other was queued.
C14_Witness ==
    /\ maxConcurrent = 2
    /\ running = {1, 2}
    /\ started = {1, 2}
    /\ queue = <<3>>
    /\ active = 2

\* ===================================================================
\* Part 2: the stream transcoder (services/stream.service)
\* ===================================================================
\* The JSON objects the child prints, by the letter that stands for them:
\*   d  a stream_event whose event is a content_block_delta with text_delta "x"
\*   e  the same with the empty text_delta ""
\*   s  a stream_event of another kind (message_start, input_json_delta, ...)
\*   a  an assistant message whose content is [text "x"]
\*   t  an assistant message whose content is [text "x", tool_use]
\*   k  an assistant message whose content is [thinking, text "x"]
\*   m  an assistant message whose content is [text ""]
\*   n  an assistant message whose content is []
\*   r  a result message with a `result` field
\*   q  a result message without one
\*   u  a message of another type
JsonKinds == {"d", "e", "s", "a", "t", "k", "m", "n", "r", "q", "u"}

\* A content block of message.content: its type and, for a text block, its text.
Block(type, text) == [type |-> type, text |-> text]

\* The fields extractTextContent reads: data.type; whether data.event.delta is
\* a text_delta with a string text, and that text; data.message.content;
\* whether data has a `result` field.
NoObject ==
    [type |-> "", delta |-> [present |-> FALSE, text |-> <<>>],
     content |-> <<>>, result |-> FALSE]

\* JSON.parse of the text "{" k "}".
JsonParse(k) ==
    CASE k = "d" -> [NoObject EXCEPT !.type = "stream_event",
                                     !.delta = [present |-> TRUE, text |-> <<"x">>]]
      [] k = "e" -> [NoObject EXCEPT !.type = "stream_event",
                                     !.delta = [present |-> TRUE, text |-> <<>>]]
      [] k = "s" -> [NoObject EXCEPT !.type = "stream_event"]
      [] k = "a" -> [NoObject EXCEPT !.type = "assistant",
                                     !.content = <<Block("text", <<"x">>)>>]
      [] k = "t" -> [NoObject EXCEPT !.type = "assistant",
                                     !.content = <<Block("text", <<"x">>),
                                                   Block("tool_use", <<>>)>>]
      [] k = "k" -> [NoObject EXCEPT !.type = "assistant",
                                     !.content = <<Block("thinking", <<>>),
                                                   Block("text", <<"x">>)>>]
      [] k = "m" -> [NoObject EXCEPT !.type = "assistant",
                                     !.content = <<Block("text", <<>>)>>]
      [] k = "n" -> [NoObject EXCEPT !.type = "assistant"]
      [] k = "r" -> [NoObject EXCEPT !.type = "result", !.result = TRUE]
      [] k = "q" -> [NoObject EXCEPT !.type = "result"]
      [] OTHER   -> [NoObject EXCEPT !.type = "user"]

\* Whether JSON.parse accepts the text.
IsJson(text) ==
    /\ Len(text) = 3
    /\ text[1] = "{"
    /\ text[2] \in JsonKinds
    /\ text[3] = "}"

\* The lines the child prints in a chat request: an empty line, a line of
\* plain text after a blank, and a JSON object of each kind the transcoder
\* treats in its own way.
Lines == {<<>>, <<"SP", "x">>} \cup {<<"{", k, "}">> : k \in {"d", "a", "r"}}

\* Lines joined by line feeds: an empty last line makes the text end with a
\* line feed.
RECURSIVE Join(_)
Join(ls) ==
    IF Len(ls) = 1 THEN ls[1] ELSE ls[1] \o <<"LF">> \o Join(Tail(ls))

\* The outputs of the child: up to MaxLines lines.
Outputs == {Join(ls) : ls \in UNION {[1..n -> Lines] : n \in 1..MaxLines}}

\* error.message of the errors child.stdout can raise.
ErrorMessages == {"EPIPE", "EIO"}

\* request.body.sessionId
Sessions == {<<>>, <<"s1">>}

\* What parseLine returns: null, a string or an object.
Null == [kind |-> "null", text |-> <<>>, object |-> NoObject]
StringValue(text) == [kind |-> "string", text |-> text, object |-> NoObject]
ObjectValue(object) == [kind |-> "object", text |-> <<>>, object |-> object]

\* String.prototype.split('\n')
RECURSIVE Split(_)
Split(text) ==
    IF \E i \in 1..Len(text) : text[i] = "LF"
    THEN LET i == CHOOSE i \in 1..Len(text) :
                      text[i] = "LF" /\ \A k \in 1..(i - 1) : text[k] # "LF"
         IN <<SubSeq(text, 1, i - 1)>> \o Split(SubSeq(text, i + 1, Len(text)))
    ELSE <<text>>

\* String.prototype.trim()
RECURSIVE Trim(_)
Trim(text) ==
    IF text # <<>> /\ Head(text) \in {"SP", "LF"} THEN Trim(Tail(text))
    ELSE IF text # <<>> /\ text[Len(text)] \in {"SP", "LF"}
         THEN Trim(SubSeq(text, 1, Len(text) - 1))
         ELSE text

\* message.content.some(item => item.type === 'tool_use')
HasToolUse(content) == \E i \in 1..Len(content) : content[i].type = "tool_use"

\* message.content.some(item => item.type === 'text' && item.text)
HasText(content) ==
    \E i \in 1..Len(content) : content[i].type = "text" /\ content[i].text # <<>>

\* extractTextContent: the delta text of a text_delta, nothing for an assistant
\* message with a non-empty text block and no tool_use block, a copy of a
\* result message without its result field, and any other message as it is.
ExtractTextContent(data) ==
    IF data.type = "stream_event"
    THEN IF data.delta.present THEN StringValue(data.delta.text) ELSE ObjectValue(data)
    ELSE IF data.type = "assistant"
         THEN IF ~HasToolUse(data.content) /\ HasText(data.content)
              THEN Null
              ELSE ObjectValue(data)
         ELSE IF data.type = "result"
              THEN ObjectValue([data EXCEPT !.result = FALSE])
              ELSE ObjectValue(data)

\* parseLine
ParseLine(line) ==
    LET trimmedLine == Trim(line) IN
    IF trimmedLine = <<>> THEN Null
    ELSE IF IsJson(trimmedLine) THEN ExtractTextContent(JsonParse(trimmedLine[2]))
         ELSE StringValue(trimmedLine)

\* The SSE events, with the fields an event does not have left empty.
NoEvent == [type |-> "", sessionId |-> <<>>, content |-> Null, error |-> ""]
StartEvent(sessionId) == [NoEvent EXCEPT !.type = "start", !.sessionId = sessionId]
DataEvent(data) == [NoEvent EXCEPT !.type = "data", !.content = data]
\* The error event that drops the message.
ErrorEventNoMessage(message) == [NoEvent EXCEPT !.type = "error"]
ErrorEvent(message) == [NoEvent EXCEPT !.type = "error", !.error = message]
EndEvent(sessionId) == [NoEvent EXCEPT !.type = "end", !.sessionId = sessionId]

\* toSSEFormat: `data: ${JSON.stringify(event)}\n\n`
ToSSEFormat(event) == [prefix |-> "data: ", json |-> event, suffix |-> <<"LF", "LF">>]

\* The inner loop of streamClaudeOutput over one chunk: the values it yields
\* as data events, in order.
ChunkData(chunk) ==
    LET lines == Split(chunk)
        IsData(line) == ParseLine(line) # Null
    IN [i \in 1..Len(SelectSeq(lines, IsData)) |-> ParseLine(SelectSeq(lines, IsData)[i])]

\* ===================================================================
\* Part 2: the permission service and the launcher's arguments
\* ===================================================================
\* String.prototype.split(',')
RECURSIVE SplitComma(_)
SplitComma(text) ==
    IF \E i \in 1..Len(text) : text[i] = ","
    THEN LET i == CHOOSE i \in 1..Len(text) :
                      text[i] = "," /\ \A k \in 1..(i - 1) : text[k] # ","
         IN <<SubSeq(text, 1, i - 1)>> \o SplitComma(SubSeq(text, i + 1, Len(text)))
    ELSE <<text>>

\* .map(dir => dir.trim())
TrimAll(dirs) == [i \in 1..Len(dirs) |-> Trim(dirs[i])]

\* buildAllowedToolsArg without the workspace restriction of projectwrite.
BuildAllowedToolsArgNoWorkspace(mode, ws) ==
    CASE mode = "pure" -> <<"\"\"">>
      [] mode = "simple" -> <<"WebSearch,WebFetch">>
      [] mode = "readonly" -> <<"Read,LS,Glob,Grep">>
      [] mode = "projectwrite" -> <<"Read,Write,Edit,LS,Glob,Grep">>
      [] OTHER -> <<>>

\* buildAllowedToolsArg: the value of --allowedTools, as a string of pieces.
BuildAllowedToolsArg(mode, ws) ==
    CASE mode = "pure" -> <<"\"\"">>
      [] mode = "simple" -> <<"WebSearch,WebFetch">>
      [] mode = "readonly" -> <<"Read,LS,Glob,Grep">>
      [] mode = "projectwrite" ->
            IF ws # <<>> THEN <<"\"Edit(">> \o ws \o <<"/**)\",\"Read\"">>
            ELSE <<"Read,Write,Edit,LS,Glob,Grep">>
      [] OTHER -> <<>>

\* The config object with no property set.
NoConfig ==
    [hasAllowedTools |-> FALSE, allowedTools |-> <<>>, noIndexing |-> FALSE,
     hasAddDirs |-> FALSE, addDirs |-> <<>>]

\* buildPermissionConfig without the filter that drops empty segments.
BuildPermissionConfigNoFilter(mode, ws, dirs) ==
    [NoConfig EXCEPT
        !.hasAllowedTools = mode # "",
        !.allowedTools = IF mode # "" THEN BuildAllowedToolsArg(mode, ws) ELSE <<>>,
        !.noIndexing = mode # "" /\ (mode = "pure" \/ mode = "simple"),
        !.hasAddDirs = dirs # <<>>,
        !.addDirs = IF dirs # <<>> THEN TrimAll(SplitComma(dirs)) ELSE <<>>]

\* buildPermissionConfig
BuildPermissionConfig(mode, ws, dirs) ==
    LET IsDir(dir) == Len(dir) > 0 IN
    [NoConfig EXCEPT
        !.hasAllowedTools = mode # "",
        !.allowedTools = IF mode # "" THEN BuildAllowedToolsArg(mode, ws) ELSE <<>>,
        !.noIndexing = mode # "" /\ (mode = "pure" \/ mode = "simple"),
        !.hasAddDirs = dirs # <<>>,
        !.addDirs = IF dirs # <<>> THEN SelectSeq(TrimAll(SplitComma(dirs)), IsDir)
                    ELSE <<>>]

\* for (const dir of config.addDirs) args.push('--add-dir', dir)
RECURSIVE AddDirArgs(_)
AddDirArgs(dirs) ==
    IF dirs = <<>> THEN <<>>
    ELSE <<<<"--add-dir">>, Head(dirs)>> \o AddDirArgs(Tail(dirs))

\* buildPermissionArgs
BuildPermissionArgs(config) ==
    (IF config.hasAllowedTools THEN <<<<"--allowedTools">>, config.allowedTools>> ELSE <<>>)
        \o (IF config.noIndexing THEN <<<<"--no-indexing">>>> ELSE <<>>)
        \o (IF config.hasAddDirs /\ Len(config.addDirs) > 0
            THEN AddDirArgs(config.addDirs) ELSE <<>>)

\* getMcpConfigPath: the path of .mcp.json if the file exists (<<>>: undefined).
GetMcpConfigPath == IF mcpExists THEN <<".mcp.json">> ELSE <<>>

\* buildClaudeArgs
BuildClaudeArgs(s, isStream, mcpConfigPath, permissionArgs) ==
    <<<<"-p">>, <<"--dangerously-skip-permissions">>,
      <<"--permission-mode">>, <<"bypassPermissions">>,
      <<"--output-format">>, <<"stream-json">>, <<"--verbose">>>>
        \o (IF isStream THEN <<<<"--include-partial-messages">>>> ELSE <<>>)
        \o (IF mcpConfigPath # <<>> THEN <<<<"--mcp-config">>, mcpConfigPath>> ELSE <<>>)
        \o (IF Len(permissionArgs) > 0 THEN permissionArgs ELSE <<>>)
        \o (IF s # <<>> THEN <<<<"--resume">>, s>> ELSE <<>>)

\* The handler's `session` without the test for a blank sessionId.
SessionUnchecked == session

\* The handler's `session`: request.body.sessionId unless it is absent, empty
\* or blank (<<>>: null).
Session == IF session # <<>> /\ Trim(session) # <<>> THEN session ELSE <<>>

\* The arguments handleStreamChat has spawnClaudeProcess start the child with:
\* workspace, externaldirs and allowedmode are trimmed before they are used.
SpawnArgs ==
    BuildClaudeArgs(Session, TRUE, GetMcpConfigPath,
        BuildPermissionArgs(
            BuildPermissionConfig(allowedmode, Trim(workspace), Trim(externaldirs))))

\* session || 'new'
SessionId == IF Session # <<>> THEN Session ELSE <<"new">>

\* ===================================================================
\* Part 2: the chat request (routes/chat handleStreamChat)
\* ===================================================================
bodyVars == <<session, allowedmode, workspace, externaldirs>>
envVars == <<mcpExists, envMaxConcurrent, controllerVars>>
serverVars == <<envVars, server>>
requestVars == <<bodyVars, serverVars, args, output>>
generatorVars == <<pos, chunks, pending, gen, yielded, readError>>
childVars == <<child, signals, killRequested>>

\* ServerResponse.write(frame): nothing is sent on a destroyed or ended
\* response; the first write sends the headers.
RawWrite(r, frame) ==
    IF r.destroyed \/ r.writableEnded THEN r
    ELSE [r EXCEPT !.headersSent = TRUE,
                   !.statusCode = IF r.headersSent THEN @ ELSE 200,
                   !.sent = Append(@, frame)]

\* ServerResponse.end()
RawEnd(r) ==
    [r EXCEPT !.writableEnded = TRUE,
              !.headersSent = TRUE,
              !.statusCode = IF r.headersSent THEN @ ELSE 200]

\* reply.code(statusCode).send({error: body, message: error.message})
ReplySend(r, statusCode, body, error) ==
    [r EXCEPT !.writableEnded = TRUE,
              !.headersSent = TRUE,
              !.statusCode = statusCode,
              !.body = body,
              !.message = error]

\* The frame of the error event the handler's catch block writes.
HandlerErrorFrame == ToSSEFormat(ErrorEvent("exception"))

\* child.kill(signal): the signal reaches a process that is still running.
ChildKill(signal) ==
    /\ signals' = IF child = "running" THEN Append(signals, signal) ELSE signals
    /\ killRequested' = TRUE
    /\ child' = child

\* AsyncGenerator.prototype.return() on the generator suspended at `position`:
\* at `yield start`, outside the try, it completes at once; at a yield inside
\* the try or the catch block the finally block runs and yields end; at the
\* yield of the finally block it completes.
GeneratorReturn(position, frames) ==
    IF position \in {"inLoop", "atError"}
    THEN [gen |-> "atEnd", yielded |-> Append(frames, ToSSEFormat(EndEvent(SessionId)))]
    ELSE [gen |-> "returned", yielded |-> frames]

\* The generator yields `frame` and suspends at `position`; the body of the
\* handler's for-await loop runs on it.  throws: reply.raw.write throws.
Consume(position, frame, throws) ==
    LET frames == Append(yielded, frame)
        closed == GeneratorReturn(position, frames)
    IN IF raw.writableEnded
       THEN \* break
            /\ gen' = closed.gen
            /\ yielded' = closed.yielded
            /\ pc' = "finally"
            /\ UNCHANGED <<forwarded, raw, thrown>>
       ELSE /\ forwarded' = Append(forwarded, frame)
            /\ IF throws
               THEN /\ gen' = closed.gen
                    /\ yielded' = closed.yielded
                    /\ pc' = "finally"
                    /\ thrown' = TRUE
                    /\ raw' = raw
               ELSE /\ gen' = position
                    /\ yielded' = frames
                    /\ raw' = RawWrite(raw, frame)
                    /\ UNCHANGED <<pc, thrown>>

\* The generator is suspended in `for await (const chunk of child.stdout)`.
AwaitingChunk ==
    /\ pc = "loop"
    /\ gen \in {"atStart", "inLoop"}
    /\ pending = <<>>

\* A request arrives at an idle limiter.
ChatInit ==
    /\ Init
    /\ maxConcurrent = MaxCap
    /\ defaultTimeout = MsPerSecond
    /\ pc = "idle"
    /\ thrown = FALSE
    /\ session \in Sessions
    /\ allowedmode = ""
    /\ workspace = <<>>
    /\ externaldirs = <<>>
    /\ mcpExists = FALSE
    /\ envMaxConcurrent = DefaultConcurrentRequests
    /\ server = "listening"
    /\ NoController
    /\ args = <<>>
    /\ output \in Outputs
    /\ pos = 0
    /\ chunks = 0
    /\ pending = <<>>
    /\ gen = "fresh"
    /\ yielded = <<>>
    /\ forwarded = <<>>
    /\ raw = [headersSent |-> FALSE, writableEnded |-> FALSE, destroyed |-> FALSE,
              statusCode |-> 0, body |-> "", message |-> NoError, sent |-> <<>>]
    /\ child = "none"
    /\ signals = <<>>
    /\ killRequested = FALSE
    /\ readError = ""

\* The limiter job of the request: the one of the latest run() call.
ChatJob == nextJob - 1

\* handleStreamChat: globalLimiter.run(job) calls the job at once when a slot
\* is free and queues it otherwise.
HandleStreamChat ==
    /\ pc = "idle"
    /\ Run(FALSE, defaultTimeout)
    /\ pc' = IF active < maxConcurrent THEN "validate" ELSE "queued"
    /\ UNCHANGED <<thrown, forwarded, raw, requestVars, generatorVars, childVars>>

\* request.body.prompt, as the route's body schema lets it through: a string.
Prompts == {"", "p"}

\* chatRequestSchema.safeParse(request.body).success: prompt is
\* z.string().min(1).
SafeParse(prompt) == prompt # ""

\* The validation step without its `return`: after the 400 reply the job goes
\* on to start the child.
ValidateNoReturn(prompt) ==
    /\ pc = "validate"
    /\ pc' = "spawn"
    /\ raw' = IF SafeParse(prompt) \/ raw.headersSent THEN raw
              ELSE ReplySend(raw, 400, "validation", NoError)
    /\ UNCHANGED <<vars, thrown, forwarded, requestVars, generatorVars, childVars>>

\* The validation step of the job function: an invalid body is answered with
\* status 400 and the job returns.
Validate(prompt) ==
    /\ pc = "validate"
    /\ IF SafeParse(prompt)
       THEN /\ pc' = "spawn"
            /\ raw' = raw
       ELSE /\ pc' = "return"
            /\ raw' = IF ~raw.headersSent THEN ReplySend(raw, 400, "validation", NoError) ELSE raw
    /\ UNCHANGED <<vars, thrown, forwarded, requestVars, generatorVars, childVars>>

\* spawnClaudeProcess without the child.kill() of its catch block.
SpawnClaudeProcessNoKill(spawned, stdinFails) ==
    /\ pc = "spawn"
    /\ child' = IF spawned THEN "running" ELSE "failed"
    /\ output' = IF spawned THEN output ELSE <<>>
    /\ pc' = IF stdinFails THEN "catch" ELSE "headers"
    /\ args' = SpawnArgs
    /\ UNCHANGED <<vars, thrown, forwarded, raw, bodyVars, serverVars, generatorVars, signals,
                   killRequested>>

\* spawnClaudeProcess(...).  spawned: the command could be started; otherwise
\* spawn() still returns a child, which emits 'error' (logged by the listener
\* of line 162) and never runs or writes.  stdinFails: writing the prompt to
\* the child's stdin throws, and the launcher calls child.kill() and throws.
SpawnClaudeProcess(spawned, stdinFails) ==
    /\ pc = "spawn"
    /\ child' = IF spawned THEN "running" ELSE "failed"
    /\ output' = IF spawned THEN output ELSE <<>>
    /\ IF stdinFails
       THEN /\ signals' = IF spawned THEN <<"SIGTERM">> ELSE signals
            /\ killRequested' = TRUE
            /\ pc' = "catch"
       ELSE /\ pc' = "headers"
            /\ UNCHANGED <<signals, killRequested>>
    /\ args' = SpawnArgs
    /\ UNCHANGED <<vars, thrown, forwarded, raw, bodyVars, serverVars, generatorVars>>

\* setSSEResponseHeaders(reply.raw).  throws: a setHeader call throws.
SetSSEResponseHeaders(throws) ==
    /\ pc = "headers"
    /\ pc' = IF throws THEN "catch" ELSE "loop"
    /\ UNCHANGED <<vars, thrown, forwarded, raw, requestVars, generatorVars, childVars>>

\* The first next(): the generator yields the start event.
YieldStart(throws) ==
    /\ pc = "loop"
    /\ gen = "fresh"
    /\ Consume("atStart", ToSSEFormat(StartEvent(SessionId)), throws)
    /\ UNCHANGED <<vars, requestVars, pos, chunks, pending, readError, childVars>>

\* child.stdout delivers the next k characters as one chunk; the generator
\* splits it into lines.
ReadChunk(k) ==
    /\ AwaitingChunk
    /\ pos + k <= Len(output)
    /\ chunks + 1 < MaxChunks \/ pos + k = Len(output)
    /\ pos' = pos + k
    /\ chunks' = chunks + 1
    /\ pending' = ChunkData(SubSeq(output, pos + 1, pos + k))
    /\ gen' = "inLoop"
    /\ UNCHANGED <<vars, pc, thrown, forwarded, raw, requestVars, yielded, readError,
                   childVars>>

\* The generator yields the next line of the chunk as a data event.
YieldData(throws) ==
    /\ pc = "loop"
    /\ gen = "inLoop"
    /\ pending # <<>>
    /\ pending' = Tail(pending)
    /\ Consume("inLoop", ToSSEFormat(DataEvent(Head(pending))), throws)
    /\ UNCHANGED <<vars, requestVars, pos, chunks, readError, childVars>>

\* child.stdout raises an error: the catch block yields the error event.
ReadError(message, throws) ==
    /\ AwaitingChunk
    /\ readError' = message
    /\ Consume("atError", ToSSEFormat(ErrorEvent(message)), throws)
    /\ UNCHANGED <<vars, requestVars, pos, chunks, pending, childVars>>

\* The generator without its finally block: it completes without an end event.
YieldEndSkipped(throws) ==
    /\ pc = "loop"
    /\ \/ gen = "atError"
       \/ AwaitingChunk /\ pos = Len(output)
    /\ gen' = "done"
    /\ pc' = "end"
    /\ UNCHANGED <<vars, thrown, forwarded, raw, requestVars, pos, chunks, pending, yielded,
                   readError, childVars>>

\* The finally block yields the end event: after the error event, or when
\* child.stdout has ended.
YieldEnd(throws) ==
    /\ pc = "loop"
    /\ \/ gen = "atError"
       \/ AwaitingChunk /\ pos = Len(output)
    /\ Consume("atEnd", ToSSEFormat(EndEvent(SessionId)), throws)
    /\ UNCHANGED <<vars, requestVars, pos, chunks, pending, readError, childVars>>

\* The next() after the end event: the generator completes and the loop ends.
GeneratorDone ==
    /\ pc = "loop"
    /\ gen = "atEnd"
    /\ gen' = "done"
    /\ pc' = "end"
    /\ UNCHANGED <<vars, thrown, forwarded, raw, requestVars, pos, chunks, pending, yielded,
                   readError, childVars>>

\* The handler without the reply.raw.end() after its loop.
EndResponseSkipped(throws) ==
    /\ pc = "end"
    /\ pc' = "finally"
    /\ UNCHANGED <<vars, thrown, forwarded, raw, requestVars, generatorVars, childVars>>

\* if (!reply.raw.writableEnded) reply.raw.end().  throws: end() throws.
EndResponse(throws) ==
    /\ pc = "end"
    /\ pc' = "finally"
    /\ IF raw.writableEnded
       THEN UNCHANGED <<raw, thrown>>
       ELSE IF throws
            THEN thrown' = TRUE /\ raw' = raw
            ELSE raw' = RawEnd(raw) /\ thrown' = thrown
    /\ UNCHANGED <<vars, forwarded, requestVars, generatorVars, childVars>>

\* killClaudeProcess(child)
KillClaudeProcess ==
    IF ~killRequested THEN ChildKill("SIGTERM") ELSE UNCHANGED childVars

\* The finally block of the inner try.
Finally ==
    /\ pc = "finally"
    /\ KillClaudeProcess
    /\ pc' = IF thrown THEN "catch" ELSE "return"
    /\ thrown' = FALSE
    /\ UNCHANGED <<vars, forwarded, raw, requestVars, generatorVars>>

\* The catch block that always answers with a status code and a JSON body.
CatchAlwaysJson ==
    /\ pc = "catch"
    /\ raw' = ReplySend(raw, 500, "internal", JobError)
    /\ forwarded' = forwarded
    /\ pc' = "return"
    /\ UNCHANGED <<vars, thrown, requestVars, generatorVars, childVars>>

\* The catch block of the job function.
Catch ==
    /\ pc = "catch"
    /\ raw' = IF ~raw.headersSent
              THEN ReplySend(raw, 500, "internal", JobError)
              ELSE RawEnd(RawWrite(raw, HandlerErrorFrame))
    /\ forwarded' = IF ~raw.headersSent THEN forwarded
                    ELSE Append(forwarded, HandlerErrorFrame)
    /\ pc' = "return"
    /\ UNCHANGED <<vars, thrown, requestVars, generatorVars, childVars>>

\* The job function returns: the limiter releases the slot and settles run().
JobReturn ==
    /\ pc = "return"
    /\ Complete(ChatJob, TRUE)
    /\ pc' = "returned"
    /\ UNCHANGED <<thrown, forwarded, raw, requestVars, generatorVars, childVars>>

\* The client closes the connection while the handler waits for output.
Disconnect ==
    /\ AwaitingChunk
    /\ ~raw.destroyed
    /\ raw' = [raw EXCEPT !.destroyed = TRUE]
    /\ UNCHANGED <<vars, pc, thrown, forwarded, requestVars, generatorVars, childVars>>

\* The child process exits: on its own once it has written its output, or
\* after the job is over.
ChildExit ==
    /\ child = "running"
    /\ (AwaitingChunk /\ pos = Len(output)) \/ pc = "returned"
    /\ child' = "exited"
    /\ UNCHANGED <<vars, pc, thrown, forwarded, raw, requestVars, generatorVars,
                   signals, killRequested>>

ChatNext ==
    \/ HandleStreamChat
    \/ \E prompt \in Prompts : Validate(prompt)
    \/ \E spawned, stdinFails \in BOOLEAN : SpawnClaudeProcess(spawned, stdinFails)
    \/ \E throws \in BOOLEAN : SetSSEResponseHeaders(throws)
    \/ \E throws \in BOOLEAN : YieldStart(throws)
    \/ \E k \in 1..Len(output) : ReadChunk(k)
    \/ \E throws \in BOOLEAN : YieldData(throws)
    \/ \E message \in ErrorMessages, throws \in BOOLEAN : ReadError(message, throws)
    \/ \E throws \in BOOLEAN : YieldEnd(throws)
    \/ GeneratorDone
    \/ \E throws \in BOOLEAN : EndResponse(throws)
    \/ Finally
    \/ Catch
    \/ JobReturn
    \/ Disconnect
    \/ ChildExit

ChatSpec == ChatInit /\ [][ChatNext]_allVars

\* The chat request under the scheduling of the event loop: a step that can
\* be taken is taken in the end, be it a continuation of the handler or of the
\* generator, or the next chunk, the end or an error of the child's output.
\* It is explored for three outputs: none, one JSON line, and a line of text
\* followed by a JSON line without a final line feed.
ChatLiveInit ==
    /\ ChatInit
    /\ output \in {<<>>, <<"{", "d", "}", "LF">>, <<"SP", "x", "LF", "{", "r", "}">>}

ChatLiveSpec == ChatLiveInit /\ [][ChatNext]_allVars /\ WF_allVars(ChatNext)

\* The chat request for every kind of sessionId (absent, blank, an id, an id
\* between blanks), with and without .mcp.json and a permission mode, for a
\* child that prints nothing or one line.
SessionIds == {<<>>, <<"SP">>, <<"s1">>, <<"SP", "s1", "SP">>}

SessionChatInit ==
    /\ Init
    /\ maxConcurrent = MaxCap
    /\ defaultTimeout = MsPerSecond
    /\ pc = "idle"
    /\ thrown = FALSE
    /\ session \in SessionIds
    /\ allowedmode \in {"", "readonly"}
    /\ workspace = <<>>
    /\ externaldirs = <<>>
    /\ mcpExists \in BOOLEAN
    /\ envMaxConcurrent = DefaultConcurrentRequests
    /\ server = "listening"
    /\ NoController
    /\ args = <<>>
    /\ output \in {<<>>, <<"{", "d", "}", "LF">>}
    /\ pos = 0
    /\ chunks = 0
    /\ pending = <<>>
    /\ gen = "fresh"
    /\ yielded = <<>>
    /\ forwarded = <<>>
    /\ raw = [headersSent |-> FALSE, writableEnded |-> FALSE, destroyed |-> FALSE,
              statusCode |-> 0, body |-> "", message |-> NoError, sent |-> <<>>]
    /\ child = "none"
    /\ signals = <<>>
    /\ killRequested = FALSE
    /\ readError = ""

SessionChatSpec == SessionChatInit /\ [][ChatNext]_allVars

\* ===================================================================
\* Part 3: a chat request at a limiter of capacity 1 that another job may
\* occupy, so that the request may wait in the queue
\* ===================================================================
QueuedChatInit ==
    /\ Init
    /\ maxConcurrent = 1
    /\ pc = "idle"
    /\ thrown = FALSE
    /\ session \in Sessions
    /\ allowedmode = ""
    /\ workspace = <<>>
    /\ externaldirs = <<>>
    /\ mcpExists = FALSE
    /\ envMaxConcurrent = DefaultConcurrentRequests
    /\ server = "listening"
    /\ NoController
    /\ args = <<>>
    /\ output = <<"{", "d", "}", "LF">>
    /\ pos = 0
    /\ chunks = 0
    /\ pending = <<>>
    /\ gen = "fresh"
    /\ yielded = <<>>
    /\ forwarded = <<>>
    /\ raw = [headersSent |-> FALSE, writableEnded |-> FALSE, destroyed |-> FALSE,
              statusCode |-> 0, body |-> "", message |-> NoError, sent |-> <<>>]
    /\ child = "none"
    /\ signals = <<>>
    /\ killRequested = FALSE
    /\ readError = ""

\* Another job calls run() before the chat request arrives.
OtherRun ==
    /\ pc = "idle"
    /\ nextJob = 1
    /\ \E given \in BOOLEAN, timeout \in Timeouts : Run(given, timeout)
    /\ UNCHANGED chatVars

\* The body of the other job settles.
OtherComplete(ok) ==
    /\ pc \in {"idle", "queued"}
    /\ nextJob = 2 \/ ChatJob = 2
    /\ Complete(1, ok)
    /\ UNCHANGED chatVars

\* The clock advances while the request has not started.
QueuedTick ==
    /\ pc \in {"idle", "queued"}
    /\ Tick
    /\ UNCHANGED chatVars

\* The queued request is promoted and its job function is called.
PromotedStart ==
    /\ pc = "queued"
    /\ StartPromoted
    /\ pc' = "validate"
    /\ UNCHANGED <<thrown, forwarded, raw, requestVars, generatorVars, childVars>>

\* The timer of the queued request fires: run() rejects, and so does
\* handleStreamChat, which awaits it.
QueueTimeout ==
    /\ pc = "queued"
    /\ Timeout(ChatJob)
    /\ pc' = "rejected"
    /\ UNCHANGED <<thrown, forwarded, raw, requestVars, generatorVars, childVars>>

\* The error handler that leaves the error's message out of the reply.
ErrorHandlerNoMessage ==
    /\ pc = "rejected"
    /\ raw' = ReplySend(raw, 500, "internal", NoError)
    /\ pc' = "replied"
    /\ UNCHANGED <<vars, thrown, forwarded, requestVars, generatorVars, childVars>>

\* fastify.setErrorHandler: the rejection of handleStreamChat is answered
\* with status error.statusCode || 500 and the error's message.
ErrorHandler ==
    /\ pc = "rejected"
    /\ raw' = ReplySend(raw, 500, "internal", settled[ChatJob][1])
    /\ pc' = "replied"
    /\ UNCHANGED <<vars, thrown, forwarded, requestVars, generatorVars, childVars>>

QueuedChatNext ==
    \/ OtherRun
    \/ \E ok \in BOOLEAN : OtherComplete(ok)
    \/ QueuedTick
    \/ PromotedStart
    \/ QueueTimeout
    \/ ErrorHandler
    \/ ChatNext

QueuedChatSpec == QueuedChatInit /\ [][QueuedChatNext]_allVars

\* ===================================================================
\* Part 4: the transcoder on one chunk of output (parseLine and the inner
\* loop of streamClaudeOutput), for lines of every kind
\* ===================================================================
\* n blanks
RECURSIVE Pad(_)
Pad(n) == IF n = 0 THEN <<>> ELSE <<"SP">> \o Pad(n - 1)

\* The lines without surrounding blanks: an empty line, plain text, text
\* that starts like JSON and does not parse, and a JSON object of every kind.
Cores ==
    {<<>>, <<"x">>, <<"x", "SP", "x">>, <<"{", "x">>}
        \cup {<<"{", k, "}">> : k \in JsonKinds}

\* The lines with up to MaxPad blanks before and after.
PaddedLines == {Pad(n) \o core \o Pad(m) : n \in 0..MaxPad, m \in 0..MaxPad, core \in Cores}

\* The chunks: one line with blanks around it, or up to MaxLines lines.
TranscoderInputs ==
    PaddedLines \cup {Join(ls) : ls \in UNION {[1..n -> Cores] : n \in 1..MaxLines}}

TranscoderInit ==
    /\ Init
    /\ maxConcurrent = MaxCap
    /\ defaultTimeout = MsPerSecond
    /\ pc = "idle"
    /\ thrown = FALSE
    /\ session = <<>>
    /\ allowedmode = ""
    /\ workspace = <<>>
    /\ externaldirs = <<>>
    /\ mcpExists = FALSE
    /\ envMaxConcurrent = DefaultConcurrentRequests
    /\ server = "listening"
    /\ NoController
    /\ args = <<>>
    /\ output \in TranscoderInputs
    /\ pos = 0
    /\ chunks = 0
    /\ pending = <<>>
    /\ gen = "fresh"
    /\ yielded = <<>>
    /\ forwarded = <<>>
    /\ raw = [headersSent |-> FALSE, writableEnded |-> FALSE, destroyed |-> FALSE,
              statusCode |-> 0, body |-> "", message |-> NoError, sent |-> <<>>]
    /\ child = "none"
    /\ signals = <<>>
    /\ killRequested = FALSE
    /\ readError = ""

\* One turn of `for (const line of lines)`: parseLine is applied to the next
\* line of the chunk, and a data event is yielded unless it returned null.
\* pos counts the lines done; pending holds what parseLine returned for each.
ParseNextLine ==
    /\ pc = "idle"
    /\ pos < Len(Split(output))
    /\ LET line == Split(output)[pos + 1]
           data == ParseLine(line)
       IN /\ pending' = Append(pending, data)
          /\ yielded' = IF data = Null THEN yielded
                        ELSE Append(yielded, ToSSEFormat(DataEvent(data)))
    /\ pos' = pos + 1
    /\ UNCHANGED <<vars, pc, thrown, requestVars, chunks, gen, forwarded, raw,
                   child, signals, killRequested, readError>>

TranscoderNext == ParseNextLine

TranscoderSpec == TranscoderInit /\ [][TranscoderNext]_allVars

\* ===================================================================
\* Part 5: the permission service on its own (buildPermissionConfig and
\* buildPermissionArgs called with every mode, workspace and externaldirs)
\* ===================================================================
\* The mode argument: "" stands for undefined, "other" for a string that is
\* none of the four modes.
Modes == {"", "pure", "simple", "readonly", "projectwrite", "other"}

\* The workspace argument: undefined and a directory.
Workspaces == {<<>>, <<"W">>}

\* The externaldirs argument: the strings of up to MaxDirLen characters out
\* of a letter, a comma and a blank.
DirStrings == UNION {[1..n -> {"a", ",", "SP"}] : n \in 0..MaxDirLen}

PermissionInit ==
    /\ Init
    /\ maxConcurrent = MaxCap
    /\ defaultTimeout = MsPerSecond
    /\ pc = "idle"
    /\ thrown = FALSE
    /\ session = <<>>
    /\ allowedmode \in Modes
    /\ workspace \in Workspaces
    /\ externaldirs \in DirStrings
    /\ mcpExists = FALSE
    /\ envMaxConcurrent = DefaultConcurrentRequests
    /\ server = "listening"
    /\ NoController
    /\ args = <<>>
    /\ output = <<>>
    /\ pos = 0
    /\ chunks = 0
    /\ pending = <<>>
    /\ gen = "fresh"
    /\ yielded = <<>>
    /\ forwarded = <<>>
    /\ raw = [headersSent |-> FALSE, writableEnded |-> FALSE, destroyed |-> FALSE,
              statusCode |-> 0, body |-> "", message |-> NoError, sent |-> <<>>]
    /\ child = "none"
    /\ signals = <<>>
    /\ killRequested = FALSE
    /\ readError = ""

\* buildPermissionArgs(buildPermissionConfig(mode, workspace, externaldirs))
BuildPermission ==
    /\ pc = "idle"
    /\ pc' = "built"
    /\ args' = BuildPermissionArgs(
                  BuildPermissionConfig(allowedmode, workspace, externaldirs))
    /\ UNCHANGED <<vars, thrown, bodyVars, serverVars, output, generatorVars, forwarded, raw,
                   childVars>>

PermissionNext == BuildPermission

PermissionSpec == PermissionInit /\ [][PermissionNext]_allVars

\* ===================================================================
\* Part 6: the server process (server.ts main, the module-level
\* globalLimiter, the environment the editor starts the server with)
\* ===================================================================
\* The values of MAX_CONCURRENT the editor can pass: the ends of the range
\* the setting is clamped to, its default, and the capacity globalLimiter is
\* constructed with.
EnvSettings ==
    {MinConcurrentRequests, DefaultConcurrentRequests, GlobalMaxConcurrent,
     MaxConcurrentRequests}

\* The server after main() has started listening: globalLimiter was
\* constructed when its module was loaded, with the arguments of line 179.
ServerInit ==
    /\ active = 0
    /\ maxConcurrent = GlobalMaxConcurrent
    /\ defaultTimeout = GlobalDefaultTimeout
    /\ queue = <<>>
    /\ timer = [j \in Jobs |-> FALSE]
    /\ timeoutMs = [j \in Jobs |-> 0]
    /\ timestamp = [j \in Jobs |-> 0]
    /\ microtasks = <<>>
    /\ running = {}
    /\ started = {}
    /\ settled = [j \in Jobs |-> <<>>]
    /\ nextJob = 1
    /\ now = MsPerSecond
    /\ pc = "idle"
    /\ thrown = FALSE
    /\ session = <<>>
    /\ allowedmode = ""
    /\ workspace = <<>>
    /\ externaldirs = <<>>
    /\ mcpExists = FALSE
    /\ envMaxConcurrent \in EnvSettings
    /\ server = "listening"
    /\ NoController
    /\ args = <<>>
    /\ output = <<>>
    /\ pos = 0
    /\ chunks = 0
    /\ pending = <<>>
    /\ gen = "fresh"
    /\ yielded = <<>>
    /\ forwarded = <<>>
    /\ raw = [headersSent |-> FALSE, writableEnded |-> FALSE, destroyed |-> FALSE,
              statusCode |-> 0, body |-> "", message |-> NoError, sent |-> <<>>]
    /\ child = "none"
    /\ signals = <<>>
    /\ killRequested = FALSE
    /\ readError = ""

\* A request to /chat/stream: handleStreamChat calls globalLimiter.run(job)
\* with no timeout of its own.  A closing server accepts no request.
ChatRequest ==
    /\ server = "listening"
    /\ Run(FALSE, defaultTimeout)
    /\ UNCHANGED chatVars

\* The job of a chat request returns or throws.
ChatSettles(j, ok) ==
    /\ server # "exited"
    /\ Complete(j, ok)
    /\ UNCHANGED chatVars

ServerNext ==
    \/ ChatRequest
    \/ \E j \in Jobs, ok \in BOOLEAN : ChatSettles(j, ok)

ServerSpec == ServerInit /\ [][ServerNext]_allVars

\* ---- the shutdown of the server, at a limiter whose capacity and timeout
\* are small enough for requests to queue within the bounds ----
ShutdownInit == Init /\ NoRequest

\* The continuation of a promoted job runs.
ChatPromoted ==
    /\ server # "exited"
    /\ StartPromoted
    /\ UNCHANGED chatVars

\* The timer of a queued request fires.
ChatTimeout(j) ==
    /\ server # "exited"
    /\ Timeout(j)
    /\ UNCHANGED chatVars

ServerTick ==
    /\ server # "exited"
    /\ Tick
    /\ UNCHANGED chatVars

\* SIGTERM or SIGINT: shutdown(signal) logs and calls fastify.close(); the
\* limiter is not touched.
Shutdown ==
    /\ server = "listening"
    /\ server' = "closing"
    /\ UNCHANGED <<vars, pc, thrown, bodyVars, envVars, args, output,
                   generatorVars, forwarded, raw, childVars>>

\* fastify.close() resolves once every request in flight has been answered,
\* and shutdown calls process.exit(0).
ProcessExit ==
    /\ server = "closing"
    /\ running = {}
    /\ queue = <<>>
    /\ microtasks = <<>>
    /\ server' = "exited"
    /\ UNCHANGED <<vars, pc, thrown, bodyVars, envVars, args, output,
                   generatorVars, forwarded, raw, childVars>>

ShutdownNext ==
    \/ ChatRequest
    \/ ChatPromoted
    \/ \E j \in Jobs, ok \in BOOLEAN : ChatSettles(j, ok)
    \/ \E j \in Jobs : ChatTimeout(j)
    \/ ServerTick
    \/ Shutdown
    \/ ProcessExit

ShutdownSpec == ShutdownInit /\ [][ShutdownNext]_allVars

\* ===================================================================
\* Properties of the chat request and its stream
\* ===================================================================
\* The events the generator has yielded, and their types.
Events == [i \in 1..Len(yielded) |-> yielded[i].json]
EventTypes == [i \in 1..Len(yielded) |-> yielded[i].json.type]
\* The content of the data events, in order.
IsDataEvent(event) == event.type = "data"
DataContents ==
    [i \in 1..Len(SelectSeq(Events, IsDataEvent)) |->
        SelectSeq(Events, IsDataEvent)[i].content]

\* C15: when the generator has been consumed to completion, its first event
\* is start, its last event is end, every event between them is a data event
\* or an error event, and an error event stands only directly before the end
\* event (so there is one start, one end and at most one error).
C15_StreamOrdering ==
    gen = "done" =>
        LET n == Len(yielded) IN
        /\ n >= 2
        /\ EventTypes[1] = "start"
        /\ EventTypes[n] = "end"
        /\ \A i \in 2..(n - 1) :
             /\ EventTypes[i] \in {"data", "error"}
             /\ EventTypes[i] = "error" => i = n - 1

\* C15 witness: a completed stream with a data event and an error event.
C15_Witness ==
    /\ gen = "done"
    /\ \E i \in 1..Len(yielded) : EventTypes[i] = "data"
    /\ \E i \in 1..Len(yielded) : EventTypes[i] = "error"

\* C16: however the output is cut into chunks, a stream that ended without a
\* read error carries the data events of the output taken as one unbroken
\* chunk.
C16_ChunkingIndependent ==
    gen = "done" /\ readError = "" => DataContents = ChunkData(output)

\* C17: once the client has disconnected, the handler passes no further frame
\* to the response.
C17_StopsForwardingOnDisconnect ==
    [][raw.destroyed => forwarded' = forwarded]_allVars

\* C18: when the response stream of a request has been ended, the child that
\* the request started is no longer running or has been sent a signal.
C18_TerminatedBeforeStreamEnd ==
    raw.writableEnded /\ child = "running" => signals # <<>>

\* C19: when the job function of a request that spawned a child has returned,
\* child.kill has been called on that child.
C19_CleanupOnEveryExit ==
    pc = "returned" /\ child # "none" => killRequested

\* C20: the stream holds an error event exactly when child.stdout raised an
\* error; there is then one error event, it carries the message of that
\* error, nothing but the end event follows it, and the end event has
\* followed it as soon as the handler has left its loop.
C20_ReadErrorThenEnd ==
    LET n == Len(yielded) IN
    IF readError = ""
    THEN \A i \in 1..n : EventTypes[i] # "error"
    ELSE \E i \in 1..n :
            /\ EventTypes[i] = "error"
            /\ Events[i].error = readError
            /\ \A k \in 1..n : EventTypes[k] = "error" => k = i
            /\ \/ i = n /\ gen = "atError" /\ pc = "loop"
               \/ i + 1 = n /\ EventTypes[n] = "end"

\* C20 witness: a read error after a data event, in a stream that has ended.
C20_Witness ==
    /\ readError # ""
    /\ gen = "done"
    /\ \E i \in 1..Len(yielded) : EventTypes[i] = "data"

\* C21: once the handler has left its loop over the generator, the last event
\* the generator yielded is the end event carrying the session identifier.
C21_EndEventIsFinal ==
    pc # "loop" /\ yielded # <<>> =>
        /\ EventTypes[Len(yielded)] = "end"
        /\ Events[Len(yielded)].sessionId = SessionId

C23_ValidationTakesNoSlot ==
    raw.body = "validation" /\ pc = "return" => active = 0 /\ queue = <<>>

\* C24: a request whose job was rejected by its queue timer is in the
\* rejected branch and nowhere else; in that branch its job function was
\* never called, no child was spawned and no frame was produced or written;
\* and the reply it gets has status 500 and carries the timeout error, whose
\* message states the limiter's configured timeout in seconds.
C24_QueueTimeoutFailsBeforeStreaming ==
    /\ nextJob > 1 /\ (\E k \in 1..Len(settled[ChatJob]) :
                            settled[ChatJob][k].kind = "timeout")
          => pc \in {"rejected", "replied"}
    /\ pc \in {"rejected", "replied"} =>
          /\ ChatJob \notin started
          /\ child = "none"
          /\ signals = <<>>
          /\ yielded = <<>>
          /\ forwarded = <<>>
          /\ raw.sent = <<>>
    /\ pc = "replied" =>
          /\ raw.statusCode = 500
          /\ raw.writableEnded
          /\ raw.message.kind = "timeout"
          /\ raw.message.seconds * MsPerSecond = defaultTimeout

\* C24 witness: the request waited out a timeout of two seconds behind the
\* other job and has been answered.
C24_Witness ==
    /\ pc = "replied"
    /\ raw.message.seconds = 2
    /\ 1 \in running

\* C25: for a request whose CLI process could not be started, no frame is
\* passed to the response, and the reply it has got when its job returns is a
\* server error.
C25_SpawnFailureBeforeStreaming ==
    child = "failed" =>
        /\ forwarded = <<>>
        /\ pc = "returned" => raw.statusCode = 500

C27_ErrorReportingByHeadersSent ==
    [][pc = "catch" /\ pc' # "catch" =>
          IF raw.sent = <<>>
          THEN /\ ~raw.headersSent
               /\ raw'.statusCode = 500
               /\ raw'.body = "internal"
               /\ raw'.writableEnded
               /\ raw'.sent = <<>>
               /\ forwarded' = forwarded
          ELSE /\ raw.headersSent
               /\ raw'.statusCode = raw.statusCode
               /\ raw'.body = ""
               /\ raw'.writableEnded
               /\ Len(forwarded') = Len(forwarded) + 1
               /\ forwarded'[Len(forwarded')].json.type = "error"
               /\ ~raw.destroyed =>
                     raw'.sent = Append(raw.sent, forwarded'[Len(forwarded')])]_allVars

\* C27 witness: an exception after the stream had opened was reported in
\* band: the last frame on the wire is the handler's error frame, under
\* status 200.
C27_Witness ==
    /\ pc = "return"
    /\ raw.statusCode = 200
    /\ raw.writableEnded
    /\ Len(raw.sent) >= 2
    /\ raw.sent[Len(raw.sent)].json.type = "error"
    /\ raw.sent[Len(raw.sent)].json.error = "exception"

\* C28: when the job of a request has returned and a frame had been sent on
\* its response, the handler has ended the response, and unless the client
\* had closed the connection the last frame sent is an end event or an error
\* event; and every response on which a frame was sent is ended in the end.
C28_OpenedStreamIsClosed ==
    /\ [](pc = "returned" /\ raw.sent # <<>> =>
            /\ raw.writableEnded
            /\ ~raw.destroyed =>
                  raw.sent[Len(raw.sent)].json.type \in {"end", "error"})
    /\ (raw.sent # <<>>) ~> raw.writableEnded

\* C28 witness: a stream that was opened and then broken off by an exception
\* has been closed behind the handler's error frame.
C28_Witness ==
    /\ pc = "returned"
    /\ ~raw.destroyed
    /\ raw.writableEnded
    /\ Len(raw.sent) >= 2
    /\ raw.sent[Len(raw.sent)].json.type = "error"
    /\ readError = ""

\* ------------------------------------------------------------------
\* C29: what the spec says one line produces. An empty line: nothing. A line
\* that is not JSON: its trimmed text. A stream_event with a text delta: the
\* delta text. An assistant message whose content blocks are all text blocks:
\* nothing. An assistant message with a tool_use block: the object. A result
\* message: the object without its result field. Any other object: as it is.
C29_Classified(line) ==
    LET trimmedLine == Trim(line)
        data == JsonParse(trimmedLine[2])
        AllText == /\ data.content # <<>>
                   /\ \A i \in 1..Len(data.content) : data.content[i].type = "text"
    IN IF trimmedLine = <<>> THEN Null
       ELSE IF ~IsJson(trimmedLine) THEN StringValue(trimmedLine)
       ELSE IF data.type = "stream_event" /\ data.delta.present
            THEN StringValue(data.delta.text)
       ELSE IF data.type = "assistant" /\ AllText THEN Null
       ELSE IF data.type = "result" THEN ObjectValue([data EXCEPT !.result = FALSE])
       ELSE ObjectValue(data)

\* C29: once parseLine has been applied to a chunk of one line, what it
\* returned is what the spec's classification of that line gives.
C29_LineClassification ==
    Len(Split(output)) = 1 /\ pos = 1 => pending[1] = C29_Classified(output)

\* ------------------------------------------------------------------
\* C30: a text-only assistant message: every block of its content is a text
\* block.
C30_TextOnlyAssistant(line) ==
    LET trimmedLine == Trim(line)
        data == JsonParse(trimmedLine[2])
    IN /\ IsJson(trimmedLine)
       /\ data.type = "assistant"
       /\ data.content # <<>>
       /\ \A i \in 1..Len(data.content) : data.content[i].type = "text"

\* C30: once every line of a chunk has been handled, each line that is not
\* empty and not a text-only assistant message has yielded a data event, and
\* the data events yielded are those of the lines, in the order of the lines.
C30_NothingDroppedOrReordered ==
    LET lines == Split(output)
        Yielding(data) == data # Null
        contents == SelectSeq(pending, Yielding)
    IN pos = Len(lines) =>
          /\ \A i \in 1..Len(lines) :
                Trim(lines[i]) # <<>> /\ ~C30_TextOnlyAssistant(lines[i])
                    => pending[i] # Null
          /\ Events = [i \in 1..Len(contents) |-> DataEvent(contents[i])]

\* ------------------------------------------------------------------
\* C31: buildPermissionConfig gives pure the allow-list '""' with noIndexing,
\* simple 'WebSearch,WebFetch' with noIndexing, readonly 'Read,LS,Glob,Grep'
\* without noIndexing, projectwrite with workspace W '"Edit(W/**)","Read"',
\* projectwrite without workspace 'Read,Write,Edit,LS,Glob,Grep'; and with no
\* mode the arguments built hold neither --allowedTools nor --no-indexing.
C31_ModeTable ==
    LET config == BuildPermissionConfig(allowedmode, workspace, externaldirs)
        Has(flag) == \E i \in 1..Len(args) : args[i] = <<flag>>
        Tools(list, noIndexing) ==
            /\ config.hasAllowedTools
            /\ config.allowedTools = list
            /\ config.noIndexing = noIndexing
            /\ Len(args) >= 2 /\ args[1] = <<"--allowedTools">> /\ args[2] = list
            /\ Has("--no-indexing") = noIndexing
    IN pc = "built" =>
          /\ allowedmode = "pure" => Tools(<<"\"\"">>, TRUE)
          /\ allowedmode = "simple" => Tools(<<"WebSearch,WebFetch">>, TRUE)
          /\ allowedmode = "readonly" => Tools(<<"Read,LS,Glob,Grep">>, FALSE)
          /\ allowedmode = "projectwrite" /\ workspace # <<>> =>
                Tools(<<"\"Edit(", "W", "/**)\",\"Read\"">>, FALSE)
          /\ allowedmode = "projectwrite" /\ workspace = <<>> =>
                Tools(<<"Read,Write,Edit,LS,Glob,Grep">>, FALSE)
          /\ allowedmode = "" =>
                ~config.hasAllowedTools /\ ~Has("--allowedTools") /\ ~Has("--no-indexing")

C31_Witness ==
    /\ pc = "built"
    /\ allowedmode = "projectwrite"
    /\ workspace = <<"W">>
    /\ args[2] = <<"\"Edit(", "W", "/**)\",\"Read\"">>

\* ------------------------------------------------------------------
\* C32: the arguments built from an externaldirs string end with one
\* `--add-dir <dir>` pair for each segment between commas that is not empty
\* after trimming, with the trimmed segment as <dir>, in the order of the
\* segments; empty and blank segments give nothing, and no other argument
\* follows the mode's arguments.
C32_AddDirPerSegment ==
    LET segments == SplitComma(externaldirs)
        kept == {i \in 1..Len(segments) : Trim(segments[i]) # <<>>}
        \* the number of kept segments up to segment i
        Rank(i) == Cardinality({k \in kept : k <= i})
        modeArgs == IF allowedmode = "" THEN 0
                    ELSE IF allowedmode \in {"pure", "simple"} THEN 3 ELSE 2
    IN pc = "built" =>
          /\ Len(args) = modeArgs + 2 * Cardinality(kept)
          /\ \A i \in kept :
                /\ args[modeArgs + 2 * Rank(i) - 1] = <<"--add-dir">>
                /\ args[modeArgs + 2 * Rank(i)] = Trim(segments[i])

\* An empty segment, then a directory after a blank.
C32_Witness ==
    /\ pc = "built"
    /\ externaldirs = <<",", "SP", "a">>
    /\ allowedmode = ""
    /\ args = <<<<"--add-dir">>, <<"a">>>>

\* ------------------------------------------------------------------
\* C33: the capacity of the limiter of the chat requests is the configured
\* MAX_CONCURRENT: getStatus() reports max equal to it, and no more chat jobs
\* than that are executing, once a chat request has been admitted.
C33_CapacityIsConfigured ==
    started # {} =>
        /\ GetStatus.max = envMaxConcurrent
        /\ active <= envMaxConcurrent
        /\ Cardinality(running) <= envMaxConcurrent

\* ------------------------------------------------------------------
\* C34: the step in which the server begins to shut down rejects every job
\* waiting in the queue with the shutdown error and leaves the queue empty.
C34_ShutdownRejectsQueued ==
    [][server = "listening" /\ server' = "closing" =>
          /\ queue' = <<>>
          /\ \A j \in SeqToSet(queue) :
                settled'[j] # <<>> /\ settled'[j][Len(settled'[j])] = ShutdownError]_allVars

\* ------------------------------------------------------------------
\* C35: a job in the wait queue leaves it in the end, promoted or with its
\* promise rejected, whether or not a running job ever finishes; and a job
\* is in the queue only while its timer is pending and its timeout has not
\* been handled, so that it is rejected when the timeout has elapsed.
C35_QueuedJobLeaves ==
    /\ \A j \in Jobs :
          (j \in SeqToSet(queue)) ~>
              /\ j \notin SeqToSet(queue)
              /\ \/ j \in SeqToSet(microtasks) \cup started
                 \/ settled[j] # <<>>
    /\ [](\A j \in SeqToSet(queue) : timer[j] /\ settled[j] = <<>>)
    /\ [][\A j \in Jobs : Timeout(j) =>
              /\ j \notin SeqToSet(queue')
              /\ settled'[j][Len(settled'[j])] = TimeoutError(timeoutMs[j])]_allVars

\* A job left the queue by its timeout while the jobs that fill the limiter
\* are all still running.
C35_Witness ==
    \E j \in Jobs :
        /\ settled[j] = <<TimeoutError(timeoutMs[j])>>
        /\ j \notin started
        /\ Cardinality(running) = maxConcurrent

\* ------------------------------------------------------------------
\* C36: once the child has been spawned, its arguments end with --resume and
\* the request's sessionId if the sessionId is not empty after trimming, and
\* hold no --resume otherwise; and every start and end event yielded carries
\* that sessionId in the first case and 'new' in the second.
C36_SessionUsedConsistently ==
    LET supplied == Trim(session) # <<>>
        HasResume == \E i \in 1..Len(args) : args[i] = <<"--resume">>
    IN /\ child # "none" =>
            IF supplied
            THEN /\ Len(args) >= 2
                 /\ args[Len(args) - 1] = <<"--resume">>
                 /\ args[Len(args)] = session
                 /\ \A i \in 1..(Len(args) - 2) : args[i] # <<"--resume">>
            ELSE ~HasResume
       /\ \A i \in 1..Len(yielded) :
            yielded[i].json.type \in {"start", "end"} =>
                yielded[i].json.sessionId = IF supplied THEN session ELSE <<"new">>

\* A request with a blank sessionId whose stream ended: no --resume, and
\* start and end events with 'new'.
C36_Witness ==
    /\ session = <<"SP">>
    /\ child # "none"
    /\ args # <<>>
    /\ Len(yielded) >= 2
    /\ yielded[1].json.type = "start"
    /\ yielded[Len(yielded)].json.type = "end"
    /\ yielded[Len(yielded)].json.sessionId = <<"new">>

\* ------------------------------------------------------------------
\* C37: a run() call starts its job directly only when no job is waiting in
\* the queue, so that no job starts ahead of a job submitted before it that
\* is still waiting.
C37_NoBarging ==
    [][nextJob' = nextJob + 1 /\ nextJob \in started' =>
          /\ queue = <<>>
          /\ \A i \in Jobs : i < nextJob => i \notin SeqToSet(queue')]_allVars

\* A job admitted directly after an earlier job had waited in the queue.
C37_Witness ==
    \E i \in Jobs, j \in Jobs :
        /\ i < j
        /\ timestamp[i] # 0
        /\ timestamp[j] = 0
        /\ j \in started

\* ------------------------------------------------------------------
\* C38: a step that promotes jobs counts each of them in active at once and
\* keeps the jobs holding a slot (bodies running, or promoted and not yet
\* started) within the capacity; the later start of a promoted job's body
\* leaves active as it is; and a run() call admits directly only when the
\* running bodies and the promoted jobs together leave a slot free.
C38_SlotReservedAtPromotion ==
    [][LET Holding == Cardinality(running) + Len(microtasks)
           HoldingNext == Cardinality(running') + Len(microtasks')
           NewlyPromoted == SeqToSet(microtasks') \ SeqToSet(microtasks)
       IN /\ NewlyPromoted # {} =>
                /\ active' = HoldingNext
                /\ HoldingNext <= maxConcurrent'
          /\ (\E j \in SeqToSet(microtasks) : j \in running') => active' = active
          /\ (nextJob' # nextJob /\ nextJob \in started') =>
                /\ Holding < maxConcurrent
                /\ HoldingNext <= maxConcurrent']_allVars

\* A job waits in the queue although fewer bodies run than the capacity
\* allows: the free-looking slot belongs to a promoted job not yet started.
C38_Witness ==
    /\ microtasks # <<>>
    /\ queue # <<>>
    /\ Cardinality(running) < maxConcurrent
    /\ active = maxConcurrent
    /\ \E j \in SeqToSet(queue) : \A i \in SeqToSet(microtasks) : j > i

\* ------------------------------------------------------------------
\* C39: the child processes that were spawned and on which the handler has
\* not yet called kill are at most as many as the limiter counts active
\* jobs: the request's child, once spawned and until kill is called on it,
\* belongs to a job that holds a slot.
C39_ChildrenWithinActive ==
    LET unkilled == IF child \in {"running", "exited"} /\ ~killRequested THEN 1 ELSE 0
    IN unkilled <= active

\* ---------------------------------------------------------------------------
\* Part 7: the editor's controller of the server process (CcFastApiController)
\* ---------------------------------------------------------------------------
\* StartServerAsync and StopServerAsync run on the editor's main thread; each
\* await is a point where another call, or the exit of a process, comes
\* between.  A call is at "idle" (not under way), waits for the semaphore
\* ("waitStart", "waitStop") or is inside the try block: "start" (before the
\* checks), "startDelay" (the process was started, Task.Delay(2000) runs),
\* "stop" (before the checks), "stopWait" (WaitForExit(5000) runs) and "kill"
\* (the process did not exit in time).

\* Everything of the limiter and the chat service: the controller leaves it alone.
serviceVars == <<vars, pc, thrown, bodyVars, mcpExists, envMaxConcurrent, server, args, output,
                 generatorVars, forwarded, raw, childVars>>

\* new Process { ... } whose Start() threw: HasExited of it throws.
UnstartedProcess == -1

Waiting == {"waitStart", "waitStop"}
InSection == {"start", "startDelay", "stop", "stopWait", "kill"}

\* _serverProcess != null && !_serverProcess.HasExited, for a started process.
IsRunning == serverProcess # 0 /\ serverProcess \in live

\* A return that leaves the semaphore taken.
ReturnNoRelease(c, value) ==
    /\ cpc' = [cpc EXCEPT ![c] = "idle"]
    /\ returned' = [returned EXCEPT ![c] = value]
    /\ UNCHANGED <<startupSemaphore, waiters>>

\* return value; finally { _startupSemaphore.Release(); }.  Release completes
\* the WaitAsync of the call that has waited longest, which enters its try
\* block; with no call waiting the count goes back to one.
Return(c, value) ==
    /\ returned' = [returned EXCEPT ![c] = value]
    /\ IF waiters # <<>>
       THEN /\ cpc' = [cpc EXCEPT ![c] = "idle",
                                  ![Head(waiters)] =
                                      IF cpc[Head(waiters)] = "waitStart" THEN "start" ELSE "stop"]
            /\ waiters' = Tail(waiters)
            /\ UNCHANGED startupSemaphore
       ELSE /\ cpc' = [cpc EXCEPT ![c] = "idle"]
            /\ startupSemaphore' = startupSemaphore + 1
            /\ UNCHANGED waiters

\* await _startupSemaphore.WaitAsync() of a call: it goes on at once when the
\* count is positive and waits in line otherwise.
WaitAsync(c, entered, waiting) ==
    /\ cpc[c] = "idle"
    /\ IF startupSemaphore > 0
       THEN /\ startupSemaphore' = startupSemaphore - 1
            /\ cpc' = [cpc EXCEPT ![c] = entered]
            /\ UNCHANGED waiters
       ELSE /\ waiters' = Append(waiters, c)
            /\ cpc' = [cpc EXCEPT ![c] = waiting]
            /\ UNCHANGED startupSemaphore
    /\ UNCHANGED <<serverProcess, isConnectedToExternalServer, live, nextPid, returned>>

StartServerAsync(c) == WaitAsync(c, "start", "waitStart")

StopServerAsync(c) == WaitAsync(c, "stop", "waitStop")

\* The outcomes of the checks of StartServerAsync when no process is running:
\* the port is served by a cc-fastapi ("external"); the port is taken by
\* something else, Node.js or the entry file is missing or the dependencies were
\* not installed ("refused"); one of the awaited checks throws ("throws");
\* Process.Start() succeeds ("spawn") or throws ("spawnThrows").
StartOutcomes == {"external", "refused", "throws", "spawn", "spawnThrows"}

\* The try block of StartServerAsync after the test for a running process.
StartWhenNotRunning(c, outcome) ==
    /\ cpc[c] = "start"
    /\ IF serverProcess = UnstartedProcess
       THEN /\ Return(c, "false")
            /\ UNCHANGED <<serverProcess, isConnectedToExternalServer, live, nextPid>>
       ELSE CASE outcome = "external" ->
                    /\ isConnectedToExternalServer' = TRUE
                    /\ Return(c, "true")
                    /\ UNCHANGED <<serverProcess, live, nextPid>>
              [] outcome \in {"refused", "throws"} ->
                    /\ Return(c, "false")
                    /\ UNCHANGED <<serverProcess, isConnectedToExternalServer, live, nextPid>>
              [] outcome = "spawn" ->
                    /\ nextPid <= MaxProcesses
                    /\ serverProcess' = nextPid
                    /\ live' = live \cup {nextPid}
                    /\ nextPid' = nextPid + 1
                    /\ cpc' = [cpc EXCEPT ![c] = "startDelay"]
                    /\ UNCHANGED <<startupSemaphore, waiters, isConnectedToExternalServer,
                                   returned>>
              [] outcome = "spawnThrows" ->
                    /\ serverProcess' = UnstartedProcess
                    /\ Return(c, "false")
                    /\ UNCHANGED <<isConnectedToExternalServer, live, nextPid>>
    /\ UNCHANGED serviceVars

\* The try block of StartServerAsync up to Process.Start(): a running process
\* makes the call return true; HasExited of a process that was never started
\* throws, and the catch returns false; otherwise the checks run and the
\* process is started.
StartChecks(c, outcome) ==
    IF IsRunning
    THEN /\ cpc[c] = "start"
         /\ Return(c, "true")
         /\ UNCHANGED <<serverProcess, isConnectedToExternalServer, live, nextPid>>
         /\ UNCHANGED serviceVars
    ELSE StartWhenNotRunning(c, outcome)

\* After await Task.Delay(2000): a process that has exited fails the start and
\* the handle is dropped; otherwise the session is saved and the call returns
\* true.
StartConfirm(c) ==
    /\ cpc[c] = "startDelay"
    /\ IF serverProcess \notin live
       THEN /\ serverProcess' = 0
            /\ Return(c, "false")
            /\ UNCHANGED isConnectedToExternalServer
       ELSE /\ isConnectedToExternalServer' = FALSE
            /\ Return(c, "true")
            /\ UNCHANGED serverProcess
    /\ UNCHANGED <<live, nextPid>>
    /\ UNCHANGED serviceVars

\* The try block of StopServerAsync up to the wait for the exit: a connection
\* to an external server is dropped; no process, or one that has exited, is
\* success; HasExited of a never started process, or CloseMainWindow, throws
\* and the catch returns false.
StopChecks(c, throws) ==
    /\ cpc[c] = "stop"
    /\ IF isConnectedToExternalServer
       THEN /\ isConnectedToExternalServer' = FALSE
            /\ Return(c, "true")
       ELSE /\ UNCHANGED isConnectedToExternalServer
            /\ IF serverProcess = UnstartedProcess
               THEN Return(c, "false")
               ELSE IF ~IsRunning
                    THEN Return(c, "true")
                    ELSE IF throws
                         THEN Return(c, "false")
                         ELSE /\ cpc' = [cpc EXCEPT ![c] = "stopWait"]
                              /\ UNCHANGED <<startupSemaphore, waiters, returned>>
    /\ UNCHANGED <<serverProcess, live, nextPid>>
    /\ UNCHANGED serviceVars

\* After await Task.Run(() => WaitForExit(5000)): a process that exited is
\* forgotten and the call returns true; otherwise the process is to be killed.
StopWait(c) ==
    /\ cpc[c] = "stopWait"
    /\ IF serverProcess \notin live
       THEN /\ serverProcess' = 0
            /\ Return(c, "true")
       ELSE /\ cpc' = [cpc EXCEPT ![c] = "kill"]
            /\ UNCHANGED <<serverProcess, startupSemaphore, waiters, returned>>
    /\ UNCHANGED <<isConnectedToExternalServer, live, nextPid>>
    /\ UNCHANGED serviceVars

\* try { Kill(); await Task.Run(() => WaitForExit(3000)); } catch { }: the
\* process is gone after it (dies) or not, when Kill threw or the process
\* outlived the three seconds; the handle is dropped in both cases and the
\* call returns true.
StopKill(c, dies) ==
    /\ cpc[c] = "kill"
    /\ live' = IF dies THEN live \ {serverProcess} ELSE live
    /\ serverProcess' = 0
    /\ Return(c, "true")
    /\ UNCHANGED <<isConnectedToExternalServer, nextPid>>
    /\ UNCHANGED serviceVars

\* A server process exits by itself (it was closed, or it failed).  The Exited
\* event is not raised (EnableRaisingEvents is never set), so no field changes.
ServerProcessExits(p) ==
    /\ p \in live
    /\ live' = live \ {p}
    /\ UNCHANGED <<serverProcess, startupSemaphore, waiters, isConnectedToExternalServer,
                   nextPid, cpc, returned>>
    /\ UNCHANGED serviceVars

StartCalled(c) ==
    /\ StartServerAsync(c)
    /\ UNCHANGED serviceVars

StopCalled(c) ==
    /\ StopServerAsync(c)
    /\ UNCHANGED serviceVars

\* The step of a call that holds the semaphore.
SectionStep(c) ==
    \/ \E outcome \in StartOutcomes : StartChecks(c, outcome)
    \/ StartConfirm(c)
    \/ \E throws \in BOOLEAN : StopChecks(c, throws)
    \/ StopWait(c)
    \/ \E dies \in BOOLEAN : StopKill(c, dies)

\* The server the controller starts is the one of ServerInit; the editor's
\* setting of the capacity is the default.
ControllerInit == ServerInit /\ envMaxConcurrent = DefaultConcurrentRequests

ControllerNext ==
    \/ \E c \in Callers : StartCalled(c)
    \/ \E c \in Callers : StopCalled(c)
    \/ \E c \in Callers : SectionStep(c)
    \/ \E p \in 1..MaxProcesses : ServerProcessExits(p)

\* Every awaited operation inside the try blocks completes (the probes, the
\* delays and the waits for the exit all have timeouts), so a call that holds
\* the semaphore takes its next step.
ControllerSpec ==
    ControllerInit /\ [][ControllerNext]_allVars /\ \A c \in Callers : WF_allVars(SectionStep(c))

\* C40: StartServerAsync and StopServerAsync are serialized by the one
\* semaphore: at most one call is inside a try block, and the semaphore's count
\* is one exactly when none is (so it was released on every exit path and no
\* call waits while it is free); StartServerAsync returns true and starts no
\* process when the process it holds is running; hence a process is started
\* only when the controller holds no running process, and every call that
\* waits for the semaphore gets it.
C40_OneCallAtATime ==
    /\ Cardinality({c \in Callers : cpc[c] \in InSection}) = 1 - startupSemaphore
    /\ startupSemaphore \in {0, 1}
    /\ startupSemaphore = 1 => waiters = <<>>
    /\ SeqToSet(waiters) = {c \in Callers : cpc[c] \in Waiting}

C40_SerializedSingleProcess ==
    /\ []C40_OneCallAtATime
    /\ [][/\ nextPid' # nextPid => ~(serverProcess # 0 /\ serverProcess \in live)
          /\ \A c \in Callers :
                (cpc[c] = "start" /\ cpc'[c] # "start"
                    /\ serverProcess # 0 /\ serverProcess \in live) =>
                    /\ returned'[c] = "true"
                    /\ cpc'[c] = "idle"
                    /\ nextPid' = nextPid
                    /\ serverProcess' = serverProcess]_allVars
    /\ \A c \in Callers : (cpc[c] \in Waiting) ~> (cpc[c] \in InSection)

\* A call waits for the semaphore while another stops a running process, and a
\* second start has returned true for the process the first one started.
C40_Witness ==
    /\ \E c \in Callers : cpc[c] \in Waiting
    /\ \E c \in Callers : cpc[c] = "kill"
    /\ serverProcess \in live
    /\ \E c \in Callers : returned[c] = "true"

====
